---- MODULE Spec2Model ----
(***************************************************************************)
(* Verification model of claude-code-env: the provider router             *)
(* (internal/provider), the request forwarder (internal/llm_proxy,        *)
(* internal/proxy) and the client session tracker (internal/proxy).       *)
(* Time is counted in whole minutes.                                      *)
(***************************************************************************)
EXTENDS Integers, Sequences, FiniteSets, Bags, TLC

(* ------------------------------ bounds -------------------------------- *)
MaxTime == 7
MaxFailureCount == 6
MaxRun == 7
NumRequests == 2
MaxCallbacks == 2
MaxBody == 3
MaxFields == 2
NumThreads == 2
MaxWrites == 2

(* -------------------------- program constants -------------------------- *)
FailureThreshold == 5
DisableMinutes == 5

ZeroTime == 0

Min(S) == CHOOSE x \in S : \A y \in S : x <= y

(* ------------------------------ config --------------------------------- *)
Env(token, key, model) ==
    [ANTHROPIC_AUTH_TOKEN |-> token, ANTHROPIC_API_KEY |-> key,
     ANTHROPIC_MODEL |-> model, ANTHROPIC_BASE_URL |-> "https://up"]

Provider(name, state, env) == [Name |-> name, State |-> state, Env |-> env]

Strategies == {"default", "robin"}

RouterProviderLists ==
    { << Provider("A", "on", Env("tokA", "", "")),
         Provider("B", "on", Env("", "keyB", "")) >>,
      << Provider("A", "off", Env("tokA", "", "")),
         Provider("B", "on", Env("tokB", "keyB", "")) >>,
      << Provider("A", "on", Env("", "", "")),
         Provider("B", "on", Env("tokB", "", "")) >> }

Config(strategy, provs) == [Routing |-> [Strategy |-> strategy], Providers |-> provs]

(* ------------------------------- state --------------------------------- *)
VARIABLES
    now,              \* wall clock, in minutes
    providers,        \* ProviderManager.providers
    routingStrategy,  \* ProviderManager.routingStrategy
    robinIndex,       \* ProviderManager.robinIndex
    lastOp,           \* history: the router call made by the last step and its result
    selRun,           \* history: selections since construction while no failure was recorded
    fifthAt,          \* history: per provider, when its failureCount was last brought to 5 (0: not in cooldown)
    selected,         \* history: providers that GetNextProvider has handed to some request
    reqs,             \* the requests being handled (a bag): where each handler stands and the provider it holds
    lastResp,         \* history: what the handler step just taken sent to its caller and recorded
    streak,           \* history: per provider, upstream failures in a row of the requests routed to it
    clients,          \* ClientManager.clients
    onEmpty,          \* ClientManager.onEmpty is set
    lastClientOp,     \* history: the ClientManager call or service event of the last step and what it did
    mu,               \* ClientManager.mu: the call holding it ("" when free)
    callbacks,        \* the started goroutines of the shutdown callback (a bag)
    shutdownChan,     \* messages in shutdownChan (buffer of 1)
    service,          \* StartProxyService: its event loop is running, its server is serving; run is
                      \* "setup" until the shutdown callback is set, then "first", and "reloaded"
                      \* once a reload has built the server
    graph,            \* ServerRoutingManager: its two listeners and their ports
    call,             \* the ServerRoutingManager call in progress or last made, and its result
    busy,             \* ports held by other processes
    orch,             \* the orchestrator's event loop and the config watcher's channels
    relay,            \* copyResponse: the upstream body, the buffer and what the caller was sent
    proxyReq,         \* the upstream request last built, with the inbound headers and body
    answer,           \* the request last served by the API listener and the answer it got
    pmMutex,          \* ProviderManager.mutex: the goroutine holding it, 0 when free
    threads,          \* the request goroutines running over the ProviderManager
    lockHist,         \* history: failures recorded per provider since its count was last zeroed,
                      \* and the last two cursor values read by round-robin picks
    expiry,           \* history: the providers the last GetProviderStatus reported disabled past
                      \* their deadline, and those the last GetNextProvider found past it
    conf,             \* settings.json: what LoadConfig makes of its content, the writes still
                      \* to come, and the write events the watcher has not taken yet
    torn,             \* the ProxyServer a reload has shut down: its ClientManager, and what its
                      \* cleanup goroutine has done since
    iso,              \* the ProviderManager of the LLMProxyServer a reload has replaced, the
                      \* requests in flight with the server handling each, and the last step
    hb                \* a client process: its main function and its heartbeat goroutine

routerVars == <<providers, routingStrategy, robinIndex>>
histVars == <<lastOp, selRun, fifthAt, selected>>
proxyVars == <<reqs, lastResp, streak>>
sessionVars == <<clients, onEmpty, lastClientOp>>
lockVars == <<pmMutex, threads, lockHist>>
lateVars == <<torn, iso, hb>>
extraVars == <<relay, proxyReq, answer, lockVars, expiry, conf, lateVars>>
graphVars == <<graph, call, busy, orch, extraVars>>
systemVars == <<mu, callbacks, shutdownChan, service, graphVars>>
vars == <<now, providers, routingStrategy, robinIndex, lastOp, selRun, fifthAt, selected, reqs, lastResp, streak,
          clients, onEmpty, lastClientOp, mu, callbacks, shutdownChan, service, graph, call, busy, orch,
          relay, proxyReq, answer, pmMutex, threads, lockHist, expiry, conf, lateVars>>

(* ------------------------- ProviderManager ----------------------------- *)
NewProviderState(provider) ==
    [Provider |-> provider,
     FailureCount |-> 0,
     IsDisabled |-> (provider.State # "on")
                    \/ (provider.Env.ANTHROPIC_AUTH_TOKEN = "" /\ provider.Env.ANTHROPIC_API_KEY = ""),
     DisabledUntil |-> ZeroTime]

NewProviderManager(cfg) ==
    [providers |-> [i \in 1..Len(cfg.Providers) |-> NewProviderState(cfg.Providers[i])],
     routingStrategy |-> cfg.Routing.Strategy,
     robinIndex |-> 0]

\* variant: only the first provider past its deadline is re-enabled
updateProviderStatesFirst(ps, t) ==
    [i \in 1..Len(ps) |->
        IF /\ ps[i].IsDisabled /\ ps[i].DisabledUntil # ZeroTime /\ t > ps[i].DisabledUntil
           /\ \A j \in 1..(i - 1) :
                 ~(ps[j].IsDisabled /\ ps[j].DisabledUntil # ZeroTime /\ t > ps[j].DisabledUntil)
        THEN [ps[i] EXCEPT !.IsDisabled = FALSE, !.DisabledUntil = ZeroTime, !.FailureCount = 0]
        ELSE ps[i]]

updateProviderStates(ps, t) ==
    [i \in 1..Len(ps) |->
        IF ps[i].IsDisabled /\ ps[i].DisabledUntil # ZeroTime /\ t > ps[i].DisabledUntil
        THEN [ps[i] EXCEPT !.IsDisabled = FALSE, !.DisabledUntil = ZeroTime, !.FailureCount = 0]
        ELSE ps[i]]

\* variant: cooldowns are ignored
getAvailableProvidersAll(ps) ==
    LET Avail(i) == ps[i].Provider.State = "on"
    IN  SelectSeq([i \in 1..Len(ps) |-> i], Avail)

getAvailableProviders(ps) ==
    LET Avail(i) == ps[i].Provider.State = "on" /\ ~ps[i].IsDisabled
    IN  SelectSeq([i \in 1..Len(ps) |-> i], Avail)

\* variant: prefers the last available provider
getNextDefaultLast(ps, availableProviders) == availableProviders[Len(availableProviders)]

getNextDefault(ps, availableProviders) ==
    LET hits == {i \in 1..Len(ps) : \E k \in 1..Len(availableProviders) : availableProviders[k] = i}
    IN  IF hits # {} THEN Min(hits) ELSE availableProviders[1]

\* variant: the cursor is not advanced
getNextRobinStuck(availableProviders, idx) ==
    IF Len(availableProviders) = 1
    THEN [selected |-> availableProviders[1], robinIndex |-> idx]
    ELSE LET j == idx % Len(availableProviders)
         IN  [selected |-> availableProviders[j + 1], robinIndex |-> j]

\* returns the selected provider and the new cursor
getNextRobin(availableProviders, idx) ==
    IF Len(availableProviders) = 1
    THEN [selected |-> availableProviders[1], robinIndex |-> idx]
    ELSE LET j == idx % Len(availableProviders)
         IN  [selected |-> availableProviders[j + 1], robinIndex |-> j + 1]

\* result of GetNextProvider at time t: selected = 0 stands for the error return
GetNextProvider(ps, strategy, idx, t) ==
    LET ups == updateProviderStates(ps, t)
        availableProviders == getAvailableProviders(ups)
    IN  IF Len(availableProviders) = 0
        THEN [providers |-> ups, robinIndex |-> idx, selected |-> 0]
        ELSE IF strategy = "robin"
             THEN LET r == getNextRobin(availableProviders, idx)
                  IN  [providers |-> ups, robinIndex |-> r.robinIndex, selected |-> r.selected]
             ELSE [providers |-> ups, robinIndex |-> idx,
                   selected |-> getNextDefault(ups, availableProviders)]

\* index of the first provider carrying the name, 0 when there is none
FindByName(ps, providerName) ==
    LET m == {i \in 1..Len(ps) : ps[i].Provider.Name = providerName}
    IN  IF m = {} THEN 0 ELSE Min(m)

\* variant: the cooldown starts one failure later
RecordFailureAbove(ps, providerName, t) ==
    LET i == FindByName(ps, providerName)
    IN  IF i = 0 THEN ps
        ELSE LET c == ps[i].FailureCount + 1
             IN  IF c > FailureThreshold
                 THEN [ps EXCEPT ![i].FailureCount = c,
                                 ![i].IsDisabled = TRUE, ![i].DisabledUntil = t + DisableMinutes]
                 ELSE [ps EXCEPT ![i].FailureCount = c]

RecordFailure(ps, providerName, t) ==
    LET i == FindByName(ps, providerName)
    IN  IF i = 0 THEN ps
        ELSE LET c == ps[i].FailureCount + 1
             IN  IF c >= FailureThreshold
                 THEN [ps EXCEPT ![i].FailureCount = c,
                                 ![i].IsDisabled = TRUE, ![i].DisabledUntil = t + DisableMinutes]
                 ELSE [ps EXCEPT ![i].FailureCount = c]

\* variant: a success also lifts the cooldown
RecordSuccessReenables(ps, providerName) ==
    LET i == FindByName(ps, providerName)
    IN  IF i = 0 THEN ps
        ELSE [ps EXCEPT ![i].FailureCount = 0, ![i].IsDisabled = FALSE, ![i].DisabledUntil = ZeroTime]

RecordSuccess(ps, providerName) ==
    LET i == FindByName(ps, providerName)
    IN  IF i = 0 THEN ps
        ELSE IF ps[i].FailureCount > 0 THEN [ps EXCEPT ![i].FailureCount = 0] ELSE ps

Names(ps) == {ps[i].Provider.Name : i \in 1..Len(ps)}

(* --------------------- router called as a library ---------------------- *)
Op(op, name, ret) == [op |-> op, name |-> name, ret |-> ret]

\* a request being handled: pc is "selected" (the handler holds a provider)
\* or "upstream" (httpClient.Do has been called); fn is the function it runs in
Slot(pc, fn, prov) == [pc |-> pc, fn |-> fn, prov |-> prov]

\* what a handler step did: the step, the route (at the handler's entry), the
\* function running, the request body read, the provider held, the upstream
\* result (-1: none), the response written (status 0: none) with the
\* error.type of a proxy-made envelope, and the router call made for the provider
Resp(step, route, fn, body, prov, up, status, errType, record) ==
    [step |-> step, route |-> route, fn |-> fn, body |-> body, prov |-> prov, up |-> up,
     status |-> status, errType |-> errType, record |-> record]
NoResp == Resp("", "", "", "", 0, -1, 0, "", "none")

\* what a ClientManager call did: the call, its clientID, the sessions it
\* removed and the number of onEmpty goroutines it started; existed tells
\* whether the clientID was in the map when the call was made and ret is the
\* call's boolean result (FALSE for the calls that have none)
ClientOp(op, id, removed, started) ==
    [op |-> op, id |-> id, removed |-> removed, started |-> started, existed |-> FALSE, ret |-> FALSE]

NewClientManager == [clients |-> [id \in {} |-> 0], onEmpty |-> FALSE]

\* settings.json left alone: no write to come, no event pending
NoConf ==
    [file |-> [err |-> FALSE,
               cfg |-> [Routing |-> [Strategy |-> "default"], Providers |-> <<>>,
                        LLMProxyPort |-> 9999, AdminPort |-> 9998]],
     writes |-> 0, events |-> 0]

InitManager(strategies, lists) ==
    /\ now = 1
    /\ \E s \in strategies, pl \in lists :
          LET pm == NewProviderManager(Config(s, pl))
          IN  /\ providers = pm.providers
              /\ routingStrategy = pm.routingStrategy
              /\ robinIndex = pm.robinIndex
              /\ fifthAt = [i \in 1..Len(pl) |-> 0]
              /\ streak = [i \in 1..Len(pl) |-> 0]
              /\ lockHist = [fails |-> [i \in 1..Len(pl) |-> 0], reads |-> <<-1, -1>>]
    /\ lastOp = Op("New", "", 0)
    /\ selRun = 0
    /\ selected = {}
    /\ reqs = EmptyBag
    /\ lastResp = NoResp
    /\ clients = NewClientManager.clients
    /\ onEmpty = NewClientManager.onEmpty
    /\ lastClientOp = ClientOp("New", "", {}, 0)
    /\ mu = ""
    /\ callbacks = EmptyBag
    /\ shutdownChan = 0
    /\ service = [loop |-> TRUE, serving |-> TRUE, run |-> "setup"]
    /\ graph = [llm |-> "new", admin |-> "new", apiPort |-> 9999, adminPort |-> 9998]
    /\ call = [op |-> "none", pending |-> {}, llmErr |-> FALSE, adminErr |-> FALSE, result |-> "none"]
    /\ busy = {}
    /\ orch = [pc |-> "start", watcher |-> "select", lastReload |-> FALSE, reloadChan |-> <<>>,
               errorChan |-> 0, last |-> [op |-> "New", applied |-> FALSE, dirty |-> FALSE]]
    /\ relay = [body |-> <<>>, pos |-> 0, buffer |-> <<"a", "a">>, sent |-> <<>>, flushed |-> 0,
                flusher |-> TRUE, pc |-> "done", gone |-> FALSE, writeFailed |-> FALSE, last |-> "None"]
    /\ proxyReq = [fn |-> "none"]
    /\ expiry = [reported |-> {}, expired |-> {}]
    /\ torn = [down |-> FALSE, clients |-> NewClientManager.clients, onEmpty |-> FALSE,
               swept |-> FALSE, fired |-> FALSE]
    /\ iso = [old |-> <<>>, inflight |-> EmptyBag, last |-> [op |-> "New", server |-> "", prov |-> ""]]
    /\ hb = [main |-> "start", pc |-> "off", tick |-> FALSE, last |-> "New"]
    /\ pmMutex = 0
    /\ threads = [t \in 1..NumThreads |-> [pc |-> "idle", sel |-> 0, cnt |-> 0, up |-> ""]]
    /\ answer = [req |-> [route |-> "", method |-> "", decodes |-> FALSE, have |-> FALSE,
                          built |-> FALSE, sent |-> FALSE],
                 resp |-> [origin |-> "", status |-> 0, shape |-> "", errType |-> ""]]

InitRouter == InitManager(Strategies, RouterProviderLists) /\ conf = NoConf

Tick ==
    /\ now < MaxTime
    /\ now' = now + 1
    /\ lastOp' = Op("Tick", "", 0)
    /\ UNCHANGED <<routerVars, selRun, fifthAt, selected, proxyVars, sessionVars, systemVars>>

NextRun(r) == IF r >= 0 /\ r < MaxRun THEN r + 1 ELSE -1

\* one call of pm.GetNextProvider()
GetNextProviderStep ==
    LET g == GetNextProvider(providers, routingStrategy, robinIndex, now)
    IN  /\ providers' = g.providers
        /\ robinIndex' = g.robinIndex
        /\ lastOp' = Op("GetNextProvider", "", g.selected)
        /\ selRun' = NextRun(selRun)
        /\ UNCHANGED <<now, routingStrategy, proxyVars, sessionVars, systemVars>>

\* one call of pm.RecordFailure(n)
RecordFailureStep(n) ==
    /\ providers[FindByName(providers, n)].FailureCount < MaxFailureCount
    /\ providers' = RecordFailure(providers, n, now)
    /\ lastOp' = Op("RecordFailure", n, 0)
    /\ selRun' = -1
    /\ UNCHANGED <<now, routingStrategy, robinIndex, proxyVars, sessionVars, systemVars>>

\* one call of pm.RecordSuccess(n)
RecordSuccessStep(n) ==
    /\ providers' = RecordSuccess(providers, n)
    /\ lastOp' = Op("RecordSuccess", n, 0)
    /\ UNCHANGED <<now, routingStrategy, robinIndex, selRun, proxyVars, sessionVars, systemVars>>

GetNextProviderCall == GetNextProviderStep /\ UNCHANGED <<fifthAt, selected>>

RecordFailureCall == \E n \in Names(providers) : RecordFailureStep(n) /\ UNCHANGED <<fifthAt, selected>>

RecordSuccessCall == \E n \in Names(providers) : RecordSuccessStep(n) /\ UNCHANGED <<fifthAt, selected>>

NextRouter == Tick \/ GetNextProviderCall \/ RecordFailureCall \/ RecordSuccessCall

SpecRouter == InitRouter /\ [][NextRouter]_vars

(* ------------- the same calls, with the cooldown start recorded -------- *)
CooldownProviderLists ==
    { << Provider("A", "on", Env("tokA", "", "")),
         Provider("B", "on", Env("", "keyB", "")) >> }

InitCooldown == InitManager(Strategies, CooldownProviderLists) /\ conf = NoConf

\* a provider that the selection re-enables leaves its cooldown
GetNextProviderTimed ==
    /\ GetNextProviderStep
    /\ fifthAt' = [i \in 1..Len(providers) |->
                      IF providers[i].IsDisabled /\ ~providers'[i].IsDisabled THEN 0 ELSE fifthAt[i]]
    /\ UNCHANGED selected

\* the call that brings the count to 5 starts the cooldown
RecordFailureTimed ==
    \E n \in Names(providers) :
        /\ RecordFailureStep(n)
        /\ fifthAt' = [i \in 1..Len(providers) |->
                          IF i = FindByName(providers, n) /\ providers'[i].FailureCount = FailureThreshold
                          THEN now ELSE fifthAt[i]]
        /\ UNCHANGED selected

NextCooldown == Tick \/ GetNextProviderTimed \/ RecordFailureTimed \/ RecordSuccessCall

SpecCooldown == InitCooldown /\ [][NextCooldown]_vars

(* ------ the calls as requests make them: outcomes follow selections ----- *)
FailoverProviderLists ==
    { << Provider("A", "off", Env("tokA", "", "")),
         Provider("B", "on", Env("tokB", "", "")),
         Provider("C", "on", Env("", "keyC", "")) >> }

InitFailover == InitManager(Strategies, FailoverProviderLists) /\ conf = NoConf

\* a request obtains its provider
RequestSelects ==
    /\ GetNextProviderStep
    /\ selected' = selected \cup ({lastOp'.ret} \ {0})
    /\ UNCHANGED fifthAt

\* a request that holds provider i reports an upstream failure
RequestFails ==
    \E i \in selected : RecordFailureStep(providers[i].Provider.Name) /\ UNCHANGED <<fifthAt, selected>>

\* a request that holds provider i reports an upstream success
RequestSucceeds ==
    \E i \in selected : RecordSuccessStep(providers[i].Provider.Name) /\ UNCHANGED <<fifthAt, selected>>

NextFailover == Tick \/ RequestSelects \/ RequestFails \/ RequestSucceeds

SpecFailover == InitFailover /\ [][NextFailover]_vars

(* --------------- selections with no failure in between ----------------- *)
RobinProviderLists ==
    { << Provider("A", "on", Env("tokA", "", "")),
         Provider("B", "on", Env("tokB", "", "")),
         Provider("C", "on", Env("", "keyC", "")) >>,
      << Provider("A", "on", Env("tokA", "", "")),
         Provider("B", "off", Env("tokB", "", "")),
         Provider("C", "on", Env("", "keyC", "")) >>,
      << Provider("A", "on", Env("tokA", "", "")),
         Provider("B", "on", Env("", "keyB", "")) >> }

InitRobin == InitManager(Strategies, RobinProviderLists) /\ conf = NoConf

NextRobin == Tick \/ GetNextProviderCall \/ RecordSuccessCall

SpecRobin == InitRobin /\ [][NextRobin]_vars

(* ------------------------- request forwarder --------------------------- *)
Routes == {"/v1/messages", "/v1/other", "/health"}
Methods == {"POST", "GET"}

\* the handler the mux hands a route to
HandlerOf(route) ==
    IF route = "/v1/messages" THEN "handleMessages"
    ELSE IF route = "/health" THEN "handleHealth"
    ELSE "handleV1Routes"

\* request bodies: a JSON object, text that is not JSON, the empty body, the
\* JSON literal null, a JSON array, and a body whose read fails
Bodies == {"object", "malformed", "empty", "null", "array", "unreadable"}

\* upstream results: a transport error or a status
TransportError == 0
UpstreamResults == {TransportError, 200, 499, 500}

\* json.Unmarshal(bodyBytes, &requestBody) with requestBody a nil map
jsonUnmarshalMap(body) ==
    IF body = "object" THEN [err |-> FALSE, nilMap |-> FALSE]
    ELSE IF body = "null" THEN [err |-> FALSE, nilMap |-> TRUE]
    ELSE [err |-> TRUE, nilMap |-> TRUE]

\* "ok", "error", or "panic" (assignment to an entry of a nil map)
modifyRequestModel(body, targetModel) ==
    LET u == jsonUnmarshalMap(body)
    IN  IF u.err THEN "error"
        ELSE IF u.nilMap THEN "panic"
        ELSE "ok"

\* http.NewRequest fails on a target URL that does not parse
newRequestFails(baseURL) == baseURL = "%zz"

\* variant: 500 itself is not a failure
isProviderFailureAbove(status) == status > 500

\* resp.StatusCode >= 500 counts as a provider failure
isProviderFailure(status) == status >= 500

ProxyProviderLists ==
    { << Provider("P1", "on", Env("tok1", "", "m1")),
         Provider("P2", "on", Env("", "key2", "")) >>,
      << Provider("P1", "off", Env("tok1", "", "")),
         Provider("P2", "on", Env("", "", "")) >>,
      << Provider("P1", "on", [Env("tok1", "", "") EXCEPT !.ANTHROPIC_BASE_URL = "%zz"]),
         Provider("P2", "off", Env("tok2", "", "")) >> }

InitProxy == InitManager(Strategies, ProxyProviderLists) /\ conf = NoConf

NameOf(i) == providers[i].Provider.Name

One(s) == SetToBag({s})

\* the handler's entry: method check (handleMessages only), then GetNextProvider
HandleBegin ==
    /\ BagCardinality(reqs) < NumRequests
    /\ \E route \in Routes, method \in Methods :
          IF HandlerOf(route) = "handleMessages" /\ method # "POST"
          THEN /\ lastResp' = Resp("reject", route, HandlerOf(route), "", 0, -1, 405, "invalid_request_error", "none")
               /\ UNCHANGED <<routerVars, reqs>>
          ELSE LET g == GetNextProvider(providers, routingStrategy, robinIndex, now)
                   fn == IF HandlerOf(route) = "handleMessages" THEN "handleMessages" ELSE "forwardRequest"
               IN  /\ providers' = g.providers
                   /\ robinIndex' = g.robinIndex
                   /\ UNCHANGED routingStrategy
                   /\ IF g.selected = 0
                      THEN /\ lastResp' = Resp("select", route, HandlerOf(route), "", 0, -1, 503, "overloaded_error", "none")
                           /\ UNCHANGED reqs
                      ELSE /\ lastResp' = Resp("select", route, HandlerOf(route), "", g.selected, -1, 0, "", "none")
                           /\ reqs' = reqs (+) One(Slot("selected", fn, g.selected))
    /\ UNCHANGED <<now, histVars, streak, sessionVars, systemVars>>

\* a local failure after selection: error envelope, then RecordFailure
FailLocally(s, body, status, errType) ==
    /\ lastResp' = Resp("prepare", "", s.fn, body, s.prov, -1, status, errType, "failure")
    /\ providers' = RecordFailure(providers, NameOf(s.prov), now)
    /\ reqs' = reqs (-) One(s)

\* read the body, rewrite the model where asked, build and send the upstream request
HandlePrepare ==
    /\ \E s \in BagToSet(reqs), body \in Bodies :
          /\ s.pc = "selected"
          /\ LET env == providers[s.prov].Provider.Env
                 rewrite == IF s.fn = "handleMessages" /\ env.ANTHROPIC_MODEL # ""
                            THEN modifyRequestModel(body, env.ANTHROPIC_MODEL)
                            ELSE "ok"
             IN  IF body = "unreadable"
                 THEN FailLocally(s, body, 400, "invalid_request_error")
                 ELSE IF rewrite = "error"
                 THEN FailLocally(s, body, 500, "api_error")
                 ELSE IF rewrite = "panic"
                 THEN /\ lastResp' = Resp("prepare", "", s.fn, body, s.prov, -1, 0, "", "none")
                      /\ reqs' = reqs (-) One(s)
                      /\ UNCHANGED providers
                 ELSE IF newRequestFails(env.ANTHROPIC_BASE_URL)
                 THEN FailLocally(s, body, 500, "api_error")
                 ELSE /\ lastResp' = Resp("prepare", "", s.fn, body, s.prov, -1, 0, "", "none")
                      /\ reqs' = (reqs (-) One(s)) (+) One([s EXCEPT !.pc = "upstream"])
                      /\ UNCHANGED providers
    /\ UNCHANGED <<now, routingStrategy, robinIndex, histVars, streak, sessionVars, systemVars>>

\* httpClient.Do returns for request s: classify, record, relay
Upstream(s, result) ==
    /\ s.pc = "upstream"
    /\ IF result = TransportError
       THEN /\ lastResp' = Resp("upstream", "", s.fn, "", s.prov, result, 502, "api_error", "failure")
            /\ providers' = RecordFailure(providers, NameOf(s.prov), now)
       ELSE IF isProviderFailure(result)
       THEN /\ lastResp' = Resp("upstream", "", s.fn, "", s.prov, result, result, "", "failure")
            /\ providers' = RecordFailure(providers, NameOf(s.prov), now)
       ELSE /\ lastResp' = Resp("upstream", "", s.fn, "", s.prov, result, result, "", "success")
            /\ providers' = RecordSuccess(providers, NameOf(s.prov))
    /\ reqs' = reqs (-) One(s)
    /\ UNCHANGED <<now, routingStrategy, robinIndex, histVars, sessionVars, systemVars>>

HandleUpstream ==
    \E s \in BagToSet(reqs), result \in UpstreamResults : Upstream(s, result) /\ UNCHANGED streak

\* a pause long enough for every running cooldown to expire
LongPause == DisableMinutes + 1

TickProxy ==
    /\ now + LongPause <= MaxTime
    /\ now' = now + LongPause
    /\ lastResp' = NoResp
    /\ UNCHANGED <<routerVars, histVars, reqs, streak, sessionVars, systemVars>>

NextProxy == TickProxy \/ HandleBegin \/ HandlePrepare \/ HandleUpstream

SpecProxy == InitProxy /\ [][NextProxy]_vars

(* ---------- the forwarder, with upstream failures in a row counted ------ *)
TripProviderLists ==
    { << Provider("P1", "on", Env("tok1", "", "m1")),
         Provider("P2", "on", Env("", "key2", "")) >> }

InitTrip == InitManager({"default"}, TripProviderLists) /\ conf = NoConf

HandleUpstreamCounted ==
    \E s \in BagToSet(reqs), result \in UpstreamResults :
        /\ Upstream(s, result)
        /\ streak' = [streak EXCEPT ![s.prov] =
                        IF lastResp'.record = "failure" THEN streak[s.prov] + 1 ELSE 0]

NextTrip == HandleBegin \/ HandlePrepare \/ HandleUpstreamCounted

SpecTrip == InitTrip /\ [][NextTrip]_vars

(* ----------------------- client session tracker ------------------------ *)
ClientIDs == {"X", "Y"}

\* CleanupInactiveClients(300 * time.Second), in minutes
InactivityTimeout == 5

ClientInfo(registerAt, lastPing) == [RegisterAt |-> registerAt, LastPing |-> lastPing]

\* variant: an id already present keeps its first registration time
RegisterClientKeepsFirst(cl, clientID, t) ==
    [id \in DOMAIN cl \cup {clientID} |->
        IF id = clientID
        THEN (IF clientID \in DOMAIN cl THEN ClientInfo(cl[id].RegisterAt, t) ELSE ClientInfo(t, t))
        ELSE cl[id]]

RegisterClient(cl, clientID, t) ==
    [id \in DOMAIN cl \cup {clientID} |-> IF id = clientID THEN ClientInfo(t, t) ELSE cl[id]]

\* variant: an unknown id is registered by its heartbeat
UpdateHeartbeatCreates(cl, clientID, t) ==
    IF clientID \in DOMAIN cl
    THEN [clients |-> [cl EXCEPT ![clientID].LastPing = t], ret |-> TRUE]
    ELSE [clients |-> [id \in DOMAIN cl \cup {clientID} |->
                          IF id = clientID THEN ClientInfo(t, t) ELSE cl[id]],
          ret |-> TRUE]

UpdateHeartbeat(cl, clientID, t) ==
    IF clientID \in DOMAIN cl
    THEN [clients |-> [cl EXCEPT ![clientID].LastPing = t], ret |-> TRUE]
    ELSE [clients |-> cl, ret |-> FALSE]

Remove(cl, ids) == [id \in DOMAIN cl \ ids |-> cl[id]]

\* variant: the callback is called, not started as a goroutine
UnregisterClientInline(cl, cb, clientID) ==
    IF clientID \in DOMAIN cl
    THEN LET rest == Remove(cl, {clientID})
         IN  [clients |-> rest, ret |-> TRUE,
              started |-> IF DOMAIN rest = {} /\ cb THEN 1 ELSE 0, async |-> FALSE]
    ELSE [clients |-> cl, ret |-> FALSE, started |-> 0, async |-> FALSE]

\* started: the number of `go cm.onEmpty()` statements executed
UnregisterClient(cl, cb, clientID) ==
    IF clientID \in DOMAIN cl
    THEN LET rest == Remove(cl, {clientID})
         IN  [clients |-> rest, ret |-> TRUE,
              started |-> IF DOMAIN rest = {} /\ cb THEN 1 ELSE 0, async |-> TRUE]
    ELSE [clients |-> cl, ret |-> FALSE, started |-> 0, async |-> TRUE]

\* variant: a session is removed as soon as its age reaches the window
CleanupInactiveClientsAtWindow(cl, cb, t, timeout) ==
    LET toRemove == {id \in DOMAIN cl : t - cl[id].LastPing >= timeout}
        rest == Remove(cl, toRemove)
    IN  [clients |-> rest, removed |-> toRemove,
         started |-> IF DOMAIN rest = {} /\ toRemove # {} /\ cb THEN 1 ELSE 0, async |-> TRUE]

\* variant: the callback starts whenever no session is left
CleanupInactiveClientsAlways(cl, cb, t, timeout) ==
    LET toRemove == {id \in DOMAIN cl : t - cl[id].LastPing > timeout}
        rest == Remove(cl, toRemove)
    IN  [clients |-> rest, removed |-> toRemove,
         started |-> IF DOMAIN rest = {} /\ cb THEN 1 ELSE 0, async |-> TRUE]

CleanupInactiveClients(cl, cb, t, timeout) ==
    LET toRemove == {id \in DOMAIN cl : t - cl[id].LastPing > timeout}
        rest == Remove(cl, toRemove)
    IN  [clients |-> rest, removed |-> toRemove,
         started |-> IF DOMAIN rest = {} /\ toRemove # {} /\ cb THEN 1 ELSE 0, async |-> TRUE]

InitClients == InitManager({"default"}, TripProviderLists) /\ conf = NoConf

notClientVars == <<routerVars, histVars, proxyVars, systemVars>>

TickClients ==
    /\ now < MaxTime
    /\ now' = now + 1
    /\ lastClientOp' = ClientOp("Tick", "", {}, 0)
    /\ UNCHANGED <<clients, onEmpty, notClientVars>>

SetOnEmptyCallback ==
    /\ onEmpty' = TRUE
    /\ lastClientOp' = ClientOp("SetOnEmptyCallback", "", {}, 0)
    /\ UNCHANGED <<now, clients, notClientVars>>

RegisterClientCall ==
    \E id \in ClientIDs :
        /\ clients' = RegisterClient(clients, id, now)
        /\ lastClientOp' = [ClientOp("RegisterClient", id, {}, 0) EXCEPT !.existed = id \in DOMAIN clients]
        /\ UNCHANGED <<now, onEmpty, notClientVars>>

UpdateHeartbeatCall ==
    \E id \in ClientIDs :
        /\ clients' = UpdateHeartbeat(clients, id, now).clients
        /\ lastClientOp' = [ClientOp("UpdateHeartbeat", id, {}, 0) EXCEPT
                                !.existed = id \in DOMAIN clients,
                                !.ret = UpdateHeartbeat(clients, id, now).ret]
        /\ UNCHANGED <<now, onEmpty, notClientVars>>

UnregisterClientCall ==
    \E id \in ClientIDs :
        LET u == UnregisterClient(clients, onEmpty, id)
        IN  /\ clients' = u.clients
            /\ lastClientOp' = [ClientOp("UnregisterClient", id, DOMAIN clients \ DOMAIN u.clients, u.started)
                                   EXCEPT !.existed = id \in DOMAIN clients, !.ret = u.ret]
            /\ UNCHANGED <<now, onEmpty, notClientVars>>

\* one firing of cleanupTicker in startClientCleanupTask
CleanupTick ==
    LET c == CleanupInactiveClients(clients, onEmpty, now, InactivityTimeout)
    IN  /\ clients' = c.clients
        /\ lastClientOp' = ClientOp("CleanupInactiveClients", "", c.removed, c.started)
        /\ UNCHANGED <<now, onEmpty, notClientVars>>

NextClients ==
    \/ TickClients
    \/ SetOnEmptyCallback
    \/ RegisterClientCall
    \/ UpdateHeartbeatCall
    \/ UnregisterClientCall
    \/ CleanupTick

SpecClients == InitClients /\ [][NextClients]_vars

(* ------------ the tracker with one client that stays alive ------------- *)
\* the client whose heartbeat loop is running
LiveClient == "X"

\* time passes, the running client's heartbeats reaching the tracker less
\* than the inactivity window apart
LiveTick ==
    /\ LiveClient \in DOMAIN clients => (now + 1) - clients[LiveClient].LastPing < InactivityTimeout
    /\ TickClients

NextLive ==
    \/ LiveTick
    \/ SetOnEmptyCallback
    \/ RegisterClientCall
    \/ UpdateHeartbeatCall
    \/ UnregisterClientCall
    \/ CleanupTick

SpecLive == InitClients /\ [][NextLive]_vars

(* ---- the proxy service: tracker lock, shutdown callback, event loop ---- *)
\* started goroutines of the shutdown callback: pc is "grace" (sleeping, then
\* waiting to read the count) or "send" (at shutdownChan <- true); waitedBy
\* names the call that runs it inline ("" for a goroutine of its own);
\* sawRegister: a client registered since the callback was started
CallbackTask(pc, waitedBy, sawRegister) == [pc |-> pc, waitedBy |-> waitedBy, sawRegister |-> sawRegister]

\* the callback started by a ClientManager call holding the lock
Started(op, n, async) ==
    IF n = 0 THEN EmptyBag
    ELSE SetToBag({CallbackTask("grace", IF async THEN "" ELSE op, FALSE)})

InitService == InitManager({"default"}, TripProviderLists) /\ conf = NoConf

Alive == service.loop /\ service.serving

\* StartProxyService is in its for/select loop
InLoop == service.loop /\ service.run # "setup"

ServicePause ==
    /\ service.loop
    /\ now + InactivityTimeout + 1 <= MaxTime
    /\ now' = now + InactivityTimeout + 1
    /\ lastClientOp' = ClientOp("Tick", "", {}, 0)
    /\ UNCHANGED <<clients, onEmpty, routerVars, histVars, proxyVars, systemVars>>

\* proxyServer.SetShutdownCallback(...) in StartProxyService
SetShutdownCallback ==
    /\ service.loop /\ service.run = "setup" /\ mu = ""
    /\ onEmpty' = TRUE
    /\ service' = [service EXCEPT !.run = "first"]
    /\ lastClientOp' = ClientOp("SetOnEmptyCallback", "", {}, 0)
    /\ UNCHANGED <<now, clients, routerVars, histVars, proxyVars, mu, callbacks, shutdownChan, graphVars>>

\* POST /ccenv/register
RegisterRequest ==
    /\ Alive /\ mu = ""
    /\ \E id \in ClientIDs :
          /\ clients' = RegisterClient(clients, id, now)
          /\ lastClientOp' = [ClientOp("RegisterClient", id, {}, 0) EXCEPT !.existed = id \in DOMAIN clients]
    /\ callbacks' = BagOfAll(LAMBDA t : IF t.pc = "grace" THEN [t EXCEPT !.sawRegister = TRUE] ELSE t,
                             callbacks)
    /\ UNCHANGED <<now, onEmpty, routerVars, histVars, proxyVars, mu, shutdownChan, service, graphVars>>

\* POST /ccenv/heartbeat
HeartbeatRequest ==
    /\ Alive /\ mu = ""
    /\ \E id \in ClientIDs :
          LET h == UpdateHeartbeat(clients, id, now)
          IN  /\ clients' = h.clients
              /\ lastClientOp' = [ClientOp("UpdateHeartbeat", id, {}, 0) EXCEPT
                                      !.existed = id \in DOMAIN clients, !.ret = h.ret]
    /\ UNCHANGED <<now, onEmpty, routerVars, histVars, proxyVars, systemVars>>

\* POST /ccenv/unregister, up to the deferred Unlock
UnregisterRequest ==
    /\ Alive /\ mu = ""
    /\ \E id \in ClientIDs :
          LET u == UnregisterClient(clients, onEmpty, id)
          IN  /\ BagCardinality(callbacks) + u.started <= MaxCallbacks
              /\ clients' = u.clients
              /\ callbacks' = callbacks (+) Started("UnregisterClient", u.started, u.async)
              /\ lastClientOp' = [ClientOp("UnregisterClient", id, DOMAIN clients \ DOMAIN u.clients, u.started)
                                     EXCEPT !.existed = id \in DOMAIN clients, !.ret = u.ret]
    /\ mu' = "UnregisterClient"
    /\ UNCHANGED <<now, onEmpty, routerVars, histVars, proxyVars, shutdownChan, service, graphVars>>

\* cleanupTicker fires, up to the deferred Unlock
CleanupStart ==
    /\ Alive /\ mu = ""
    /\ LET c == CleanupInactiveClients(clients, onEmpty, now, InactivityTimeout)
       IN  /\ BagCardinality(callbacks) + c.started <= MaxCallbacks
           /\ clients' = c.clients
           /\ callbacks' = callbacks (+) Started("CleanupInactiveClients", c.started, c.async)
           /\ lastClientOp' = ClientOp("CleanupInactiveClients", "", c.removed, c.started)
    /\ mu' = "CleanupInactiveClients"
    /\ UNCHANGED <<now, onEmpty, routerVars, histVars, proxyVars, shutdownChan, service, graphVars>>

\* the deferred cm.mu.Unlock(): the call returns once everything it called has returned
Unlock ==
    /\ service.loop /\ mu # ""
    /\ \A t \in BagToSet(callbacks) : t.waitedBy # mu
    /\ mu' = ""
    /\ lastClientOp' = ClientOp("Unlock", "", {}, 0)
    /\ UNCHANGED <<now, clients, onEmpty, routerVars, histVars, proxyVars, callbacks, shutdownChan, service, graphVars>>

\* variant: the count is not read again after the grace period
GetClientCountStale(cl) == 0

GetClientCount(cl) == Cardinality(DOMAIN cl)

\* the callback after time.Sleep(5 * time.Second): proxyServer.GetClientCount() == 0 ?
ShutdownCallbackCheck ==
    /\ service.loop /\ mu = ""
    /\ \E t \in BagToSet(callbacks) :
          /\ t.pc = "grace"
          /\ callbacks' = IF GetClientCount(clients) = 0
                          THEN (callbacks (-) SetToBag({t})) (+) SetToBag({[t EXCEPT !.pc = "send"]})
                          ELSE callbacks (-) SetToBag({t})
          /\ lastClientOp' = [ClientOp("onEmpty.check", "", {}, 0) EXCEPT
                                  !.existed = t.sawRegister, !.ret = (GetClientCount(clients) = 0)]
    /\ UNCHANGED <<now, clients, onEmpty, routerVars, histVars, proxyVars, mu, shutdownChan, service, graphVars>>

\* shutdownChan <- true (buffer of 1)
ShutdownCallbackSend ==
    /\ service.loop /\ shutdownChan = 0
    /\ \E t \in BagToSet(callbacks) :
          /\ t.pc = "send"
          /\ callbacks' = callbacks (-) SetToBag({t})
    /\ shutdownChan' = 1
    /\ lastClientOp' = ClientOp("onEmpty.send", "", {}, 0)
    /\ UNCHANGED <<now, clients, onEmpty, routerVars, histVars, proxyVars, mu, service, graphVars>>

\* case <-shutdownChan: proxyServer.Shutdown(); return
AutoShutdown ==
    /\ InLoop /\ shutdownChan = 1
    /\ shutdownChan' = 0
    /\ service' = [service EXCEPT !.loop = FALSE, !.serving = FALSE]
    /\ lastClientOp' = ClientOp("AutoShutdown", "", {}, 0)
    /\ UNCHANGED <<now, clients, onEmpty, routerVars, histVars, proxyVars, mu, callbacks, graphVars>>

\* case <-sigChan: proxyServer.Shutdown(); return
SignalShutdown ==
    /\ InLoop
    /\ service' = [service EXCEPT !.loop = FALSE, !.serving = FALSE]
    /\ lastClientOp' = ClientOp("SignalShutdown", "", {}, 0)
    /\ UNCHANGED <<now, clients, onEmpty, routerVars, histVars, proxyVars, mu, callbacks, shutdownChan, graphVars>>

NextService ==
    \/ ServicePause
    \/ SetShutdownCallback
    \/ RegisterRequest
    \/ HeartbeatRequest
    \/ UnregisterRequest
    \/ CleanupStart
    \/ Unlock
    \/ ShutdownCallbackCheck
    \/ ShutdownCallbackSend
    \/ AutoShutdown
    \/ SignalShutdown

SpecService == InitService /\ [][NextService]_vars

\* case newConfig := <-configWatcher.GetReloadChan(): the old server is shut
\* down; unless the logger fails to reopen, a new ProviderManager and a new
\* ProxyServer (with a new ClientManager) are created and started
ReloadService ==
    /\ InLoop /\ mu = ""
    /\ \E loggerOk \in BOOLEAN, pl \in TripProviderLists :
          IF loggerOk
          THEN LET pm == NewProviderManager(Config(routingStrategy, pl))
               IN  /\ providers' = pm.providers
                   /\ routingStrategy' = pm.routingStrategy
                   /\ robinIndex' = pm.robinIndex
                   /\ clients' = NewClientManager.clients
                   /\ onEmpty' = NewClientManager.onEmpty
                   /\ service' = [loop |-> TRUE, serving |-> TRUE, run |-> "reloaded"]
                   /\ lastClientOp' = [ClientOp("Reload", "", {}, 0) EXCEPT !.ret = TRUE]
          ELSE /\ service' = [service EXCEPT !.serving = FALSE]
               /\ lastClientOp' = ClientOp("Reload", "", {}, 0)
               /\ UNCHANGED <<routerVars, clients, onEmpty>>
    /\ UNCHANGED <<now, histVars, proxyVars, mu, callbacks, shutdownChan, graphVars>>

\* the same service with configuration reloads
NextReloadService == NextService \/ ReloadService

SpecReloadService == InitService /\ [][NextReloadService]_vars

\* what the runtime guarantees: a deferred Unlock runs, a callback past its
\* sleep gets the lock and reads the count, a send on a channel with room
\* completes, and the select takes a ready shutdownChan
ServiceFairness ==
    /\ WF_vars(Unlock)
    /\ SF_vars(ShutdownCallbackCheck)
    /\ WF_vars(ShutdownCallbackSend)
    /\ WF_vars(AutoShutdown)

FairService == SpecService /\ ServiceFairness

FairReloadService == SpecReloadService /\ ServiceFairness

(* ------------- ServerRoutingManager: the two listeners ----------------- *)
\* the ports the two listeners are configured with
Ports == {9999, 9998}

Listeners == {"llm", "admin"}

\* a graph as NewServerRoutingManager builds it: a listener is "new",
\* "serving", "failed" (ListenAndServe returned an error) or "closed"
NewServerRoutingManager(apiPort, adminPort) ==
    [llm |-> "new", admin |-> "new", apiPort |-> apiPort, adminPort |-> adminPort]

\* no manager call made yet on the graph
NoCall == [op |-> "none", pending |-> {}, llmErr |-> FALSE, adminErr |-> FALSE, result |-> "none"]

\* the ports our own serving listeners hold
Bound(g) == (IF g.llm = "serving" THEN {g.apiPort} ELSE {}) \cup (IF g.admin = "serving" THEN {g.adminPort} ELSE {})

\* s.server.ListenAndServe() in its goroutine: the bind fails on a taken port
ListenAndServe(port, taken) == IF port \in taken THEN "failed" ELSE "serving"

\* LLMProxyServer.Start: the error of ListenAndServe is logged, nil is returned
LLMProxyServerStart(port, taken) == [state |-> ListenAndServe(port, taken), err |-> FALSE]

\* AdminServer.Start: the error of ListenAndServe is logged, nil is returned
AdminServerStart(port, taken) == [state |-> ListenAndServe(port, taken), err |-> FALSE]

ServerRoutingManagerStart(g, taken) ==
    LET l == LLMProxyServerStart(g.apiPort, taken)
    IN  IF l.err
        THEN [graph |-> [g EXCEPT !.llm = l.state], err |-> TRUE]
        ELSE LET a == AdminServerStart(g.adminPort,
                                       taken \cup (IF l.state = "serving" THEN {g.apiPort} ELSE {}))
             IN  IF a.err
                 THEN [graph |-> [g EXCEPT !.llm = "closed", !.admin = a.state], err |-> TRUE]
                 ELSE [graph |-> [g EXCEPT !.llm = l.state, !.admin = a.state], err |-> FALSE]

\* variant: only the first listener's error is reported
shutdownResultFirst(llmErr, adminErr) == IF llmErr THEN "error" ELSE "nil"

\* ServerRoutingManager.Shutdown, after both <-done
shutdownResult(llmErr, adminErr) ==
    IF llmErr THEN "error" ELSE IF adminErr THEN "error" ELSE "nil"

InitRouting == InitManager({"default"}, TripProviderLists) /\ conf = NoConf

notGraphVars == <<now, routerVars, histVars, proxyVars, sessionVars, mu, callbacks, shutdownChan, service, extraVars>>

\* another process takes or releases a port
OtherProcessStep ==
    /\ \E p \in Ports \ Bound(graph) :
          busy' = IF p \in busy THEN busy \ {p} ELSE busy \cup {p}
    /\ UNCHANGED <<graph, call, notGraphVars>>

OtherProcess == OtherProcessStep /\ UNCHANGED orch

\* a new manager replaces one that was never started or has been shut down
ManagerNew ==
    /\ call.op = "none" \/ (call.op = "Shutdown" /\ call.result # "none")
    /\ \E apiPort \in Ports, adminPort \in Ports :
          graph' = NewServerRoutingManager(apiPort, adminPort)
    /\ call' = NoCall
    /\ UNCHANGED <<busy, orch, notGraphVars>>

ManagerStart ==
    /\ call.op = "none"
    /\ LET r == ServerRoutingManagerStart(graph, busy)
       IN  /\ graph' = r.graph
           /\ call' = [NoCall EXCEPT !.op = "Start", !.result = IF r.err THEN "error" ELSE "nil"]
    /\ UNCHANGED <<busy, orch, notGraphVars>>

\* Shutdown starts one goroutine per listener
ManagerShutdown ==
    /\ call.op = "Start"
    /\ call' = [NoCall EXCEPT !.op = "Shutdown", !.pending = Listeners]
    /\ UNCHANGED <<graph, busy, orch, notGraphVars>>

\* llmErr = s.llmServer.Shutdown(); done <- true
LLMShutdownDone ==
    /\ call.op = "Shutdown" /\ "llm" \in call.pending
    /\ \E err \in BOOLEAN :
          call' = [call EXCEPT !.pending = @ \ {"llm"}, !.llmErr = err]
    /\ graph' = [graph EXCEPT !.llm = "closed"]
    /\ UNCHANGED <<busy, orch, notGraphVars>>

\* adminErr = s.adminServer.Shutdown(); done <- true
AdminShutdownDone ==
    /\ call.op = "Shutdown" /\ "admin" \in call.pending
    /\ \E err \in BOOLEAN :
          call' = [call EXCEPT !.pending = @ \ {"admin"}, !.adminErr = err]
    /\ graph' = [graph EXCEPT !.admin = "closed"]
    /\ UNCHANGED <<busy, orch, notGraphVars>>

\* <-done, <-done, then the result
ManagerShutdownReturn ==
    /\ call.op = "Shutdown" /\ call.result = "none"
    /\ call.pending = {}
    /\ call' = [call EXCEPT !.result = shutdownResult(call.llmErr, call.adminErr)]
    /\ UNCHANGED <<graph, busy, orch, notGraphVars>>

NextRouting ==
    \/ OtherProcess
    \/ ManagerNew
    \/ ManagerStart
    \/ ManagerShutdown
    \/ LLMShutdownDone
    \/ AdminShutdownDone
    \/ ManagerShutdownReturn

SpecRouting == InitRouting /\ [][NextRouting]_vars

(* ------- StartProxyService over the routing manager, ConfigWatcher ------ *)
\* the provider lists a snapshot may carry
SnapshotProviderLists ==
    { << Provider("P1", "on", Env("tok1", "", "m1")),
         Provider("P2", "on", Env("", "key2", "")) >>,
      << Provider("P1", "on", Env("", "", "")),
         Provider("P2", "off", Env("tok2", "", "")) >> }

\* what LoadConfig returns for a valid settings.json
Snapshots ==
    { [Routing |-> [Strategy |-> s], Providers |-> pl, LLMProxyPort |-> 9999, AdminPort |-> a] :
          s \in Strategies, pl \in SnapshotProviderLists, a \in Ports }

\* LoadConfig's two results: a snapshot with a nil error, or an error with no
\* snapshot (the empty one stands for the nil pointer)
NoSnapshot == [Routing |-> [Strategy |-> "default"], Providers |-> <<>>, LLMProxyPort |-> 9999, AdminPort |-> 9998]

LoadConfig == {[err |-> FALSE, cfg |-> c] : c \in Snapshots} \cup {[err |-> TRUE, cfg |-> NoSnapshot]}

\* the last step of the service: its name, whether a reload built a new graph,
\* and whether the router it replaced had failures recorded or a moved cursor
Last(op, applied, dirty) == [op |-> op, applied |-> applied, dirty |-> dirty]

Dirty(ps, idx) == idx # 0 \/ \E i \in 1..Len(ps) : ps[i].FailureCount > 0

InitOrchestrator == InitManager(Strategies, SnapshotProviderLists) /\ conf = NoConf

\* steps 3 and 5 of StartProxyService: ports checked, graph built and started
OrchStart ==
    /\ orch.pc = "start"
    /\ IF graph.apiPort \in busy \/ graph.adminPort \in busy
       THEN /\ orch' = [orch EXCEPT !.pc = "returned", !.watcher = "stopped", !.last = Last("Start", FALSE, FALSE)]
            /\ UNCHANGED graph
       ELSE LET r == ServerRoutingManagerStart(graph, busy)
            IN  /\ graph' = r.graph
                /\ orch' = [orch EXCEPT !.pc = IF r.err THEN "returned" ELSE "loop",
                                        !.watcher = IF r.err THEN "stopped" ELSE @,
                                        !.last = Last("Start", ~r.err, FALSE)]
    /\ UNCHANGED <<call, busy, notGraphVars>>

\* ports taken or released by other processes while the service runs
PortsChange == OtherProcessStep /\ orch' = [orch EXCEPT !.last = Last("OtherProcess", FALSE, FALSE)]

\* a request served by the running graph: a provider is selected and the
\* upstream's answer is recorded on it (no provider: 503, nothing recorded)
ServeRequest ==
    /\ orch.pc = "loop" /\ graph.llm = "serving"
    /\ \E fails \in BOOLEAN :
          LET g == GetNextProvider(providers, routingStrategy, robinIndex, now)
              n == IF g.selected = 0 THEN "" ELSE g.providers[g.selected].Provider.Name
          IN  /\ providers' = IF fails THEN RecordFailure(g.providers, n, now)
                                        ELSE RecordSuccess(g.providers, n)
              /\ robinIndex' = g.robinIndex
    /\ orch' = [orch EXCEPT !.last = Last("Request", FALSE, FALSE)]
    /\ UNCHANGED <<now, routingStrategy, histVars, proxyVars, sessionVars,
                   mu, callbacks, shutdownChan, service, graph, call, busy, extraVars>>

\* variant: a full channel is overwritten with the newer value
trySendReplaces(ch, v) == <<v>>

\* select { case ch <- v: default: } on a channel with a buffer of 1
trySend(ch, v) == IF Len(ch) = 0 THEN <<v>> ELSE ch

\* variant: a failed load is handed on as an empty snapshot
watchLoopLoadReloads(o, load) ==
    IF Len(o.reloadChan) = 0
    THEN [o EXCEPT !.reloadChan = <<load.cfg>>]
    ELSE o

\* watchLoop after LoadConfig: an error goes to errorChan (the send blocks
\* while the channel is full), a snapshot goes to reloadChan unless it is full
watchLoopLoad(o, load) ==
    IF load.err
    THEN [o EXCEPT !.watcher = "sendErr"]
    ELSE [o EXCEPT !.reloadChan = trySend(@, load.cfg)]

\* a write or create event on settings.json
WatchWrite ==
    /\ orch.pc # "returned" /\ orch.watcher = "select"
    /\ \E soon \in BOOLEAN, load \in LoadConfig :
          /\ soon => orch.lastReload
          /\ orch' = IF soon
                     THEN [orch EXCEPT !.last = Last("WatchSkip", FALSE, FALSE)]
                     ELSE [watchLoopLoad(orch, load) EXCEPT
                              !.lastReload = TRUE,
                              !.last = Last(IF load.err THEN "WatchLoadError" ELSE "WatchLoad",
                                            FALSE, FALSE)]
    /\ UNCHANGED <<graph, call, busy, notGraphVars>>

\* an error from the file watcher
WatchError ==
    /\ orch.pc # "returned" /\ orch.watcher = "select"
    /\ orch' = [orch EXCEPT !.watcher = "sendErr", !.last = Last("WatchError", FALSE, FALSE)]
    /\ UNCHANGED <<graph, call, busy, notGraphVars>>

\* cw.errorChan <- err, once the channel has room
WatchSendError ==
    /\ orch.pc # "returned" /\ orch.watcher = "sendErr"
    /\ orch.errorChan = 0
    /\ orch' = [orch EXCEPT !.watcher = "select", !.errorChan = 1, !.last = Last("SendError", FALSE, FALSE)]
    /\ UNCHANGED <<graph, call, busy, notGraphVars>>

\* ServerRoutingManager.Shutdown as one call: both listeners closed
ServerRoutingManagerShutdown(g, llmErr, adminErr) ==
    [graph |-> [g EXCEPT !.llm = "closed", !.admin = "closed"],
     result |-> shutdownResult(llmErr, adminErr)]

\* variant: the router of the old graph is kept
keepProviderManager(old, newConfig) == old

\* providerManager = provider.NewProviderManager(newConfig)
replaceProviderManager(old, newConfig) == NewProviderManager(newConfig)

\* case <-sigChan
OrchSignal ==
    /\ orch.pc = "loop"
    /\ \E llmErr \in BOOLEAN, adminErr \in BOOLEAN :
          graph' = ServerRoutingManagerShutdown(graph, llmErr, adminErr).graph
    /\ orch' = [orch EXCEPT !.pc = "returned", !.watcher = "stopped", !.last = Last("Signal", FALSE, FALSE)]
    /\ UNCHANGED <<call, busy, notGraphVars>>

\* case newConfig := <-configWatcher.GetReloadChan()
OrchReload ==
    /\ orch.pc = "loop" /\ Len(orch.reloadChan) = 1
    /\ \E llmErr \in BOOLEAN, adminErr \in BOOLEAN, loggerOk \in BOOLEAN :
          LET newConfig == Head(orch.reloadChan)
              old == [providers |-> providers, routingStrategy |-> routingStrategy, robinIndex |-> robinIndex]
              down == ServerRoutingManagerShutdown(graph, llmErr, adminErr)
              pm == replaceProviderManager(old, newConfig)
              r == ServerRoutingManagerStart(
                       NewServerRoutingManager(newConfig.LLMProxyPort, newConfig.AdminPort), busy)
          IN  IF loggerOk
              THEN /\ providers' = pm.providers
                   /\ routingStrategy' = pm.routingStrategy
                   /\ robinIndex' = pm.robinIndex
                   /\ graph' = r.graph
                   /\ orch' = [orch EXCEPT !.reloadChan = <<>>,
                                           !.last = Last("Reload", TRUE, Dirty(providers, robinIndex))]
              ELSE /\ graph' = down.graph
                   /\ orch' = [orch EXCEPT !.reloadChan = <<>>,
                                           !.last = Last("Reload", FALSE, Dirty(providers, robinIndex))]
                   /\ UNCHANGED routerVars
    /\ UNCHANGED <<now, histVars, proxyVars, sessionVars, mu, callbacks, shutdownChan, service, call, busy, extraVars>>

\* case err := <-configWatcher.GetErrorChan(): the error is logged
OrchError ==
    /\ orch.pc = "loop" /\ orch.errorChan = 1
    /\ orch' = [orch EXCEPT !.errorChan = 0, !.last = Last("Error", FALSE, FALSE)]
    /\ UNCHANGED <<graph, call, busy, notGraphVars>>

NextOrchestrator ==
    \/ OrchStart
    \/ PortsChange
    \/ ServeRequest
    \/ WatchWrite
    \/ WatchError
    \/ WatchSendError
    \/ OrchSignal
    \/ OrchReload
    \/ OrchError

SpecOrchestrator == InitOrchestrator /\ [][NextOrchestrator]_vars

(* --------------------- copyResponse: the relay loop --------------------- *)
\* the relay buffer (1024 bytes in the source, scaled down)
BufferSize == 2

Bytes == {"a", "b"}

\* every upstream body of at most MaxBody bytes
Bodies0(n) == [1..n -> Bytes]

UpstreamBodies == UNION {Bodies0(n) : n \in 0..MaxBody}

\* a relay at the head of its loop: nothing read, nothing written
NewRelay(body, flusher) ==
    [body |-> body, pos |-> 0, buffer |-> <<"a", "a">>, sent |-> <<>>,
     flushed |-> 0, flusher |-> flusher, pc |-> "loop", gone |-> FALSE, writeFailed |-> FALSE,
     last |-> "New"]

\* resp.Body.Read(buffer): the next n bytes of the body land at the front of the buffer
BodyRead(buffer, body, pos, n) ==
    [i \in 1..BufferSize |-> IF i <= n THEN body[pos + i] ELSE buffer[i]]

\* variant: the whole buffer is handed to Write
bufferWhole(buffer, n) == buffer

\* buffer[:n]
bufferUpTo(buffer, n) == SubSeq(buffer, 1, n)

\* the results Read may give with pos bytes already read: n bytes and nil, an
\* error, or io.EOF (only once the body is exhausted)
ReadResults(body, pos) ==
    {r \in [n : 0..BufferSize, err : {"nil", "EOF", "error"}] :
        /\ r.n <= Len(body) - pos
        /\ r.err = "EOF" => r.n = Len(body) - pos}

\* one iteration of the loop with a Flusher: Read, Write and Flush when n > 0
\* (the result of Write is dropped), break on any read error
copyIteration(r, rd) ==
    LET buf == BodyRead(r.buffer, r.body, r.pos, rd.n)
        wrote == rd.n > 0 /\ ~r.gone
        failed == rd.n > 0 /\ r.gone
        out == IF wrote THEN r.sent \o bufferUpTo(buf, rd.n) ELSE r.sent
    IN  [r EXCEPT !.buffer = buf, !.pos = @ + rd.n, !.sent = out,
                  !.flushed = IF wrote THEN Len(out) ELSE @,
                  !.writeFailed = @ \/ failed,
                  !.pc = IF rd.err # "nil" THEN "done" ELSE "loop",
                  !.last = "Read"]

\* one iteration of io.Copy(w, resp.Body): no Flush, a failed write ends the copy
ioCopyIteration(r, rd) ==
    LET buf == BodyRead(r.buffer, r.body, r.pos, rd.n)
        wrote == rd.n > 0 /\ ~r.gone
        failed == rd.n > 0 /\ r.gone
    IN  [r EXCEPT !.buffer = buf, !.pos = @ + rd.n,
                  !.sent = IF wrote THEN @ \o bufferUpTo(buf, rd.n) ELSE @,
                  !.writeFailed = @ \/ failed,
                  !.pc = IF rd.err # "nil" \/ failed THEN "done" ELSE "loop",
                  !.last = "Read"]

InitRelay == InitManager({"default"}, TripProviderLists) /\ conf = NoConf

notRelayVars == <<now, routerVars, histVars, proxyVars, sessionVars, mu, callbacks, shutdownChan, service,
                  graph, call, busy, orch, proxyReq, answer, lockVars, expiry, conf, lateVars>>

\* copyResponse is entered for an upstream response
CopyResponseBegin ==
    /\ relay.pc = "done"
    /\ \E body \in UpstreamBodies, flusher \in BOOLEAN : relay' = NewRelay(body, flusher)
    /\ UNCHANGED notRelayVars

CopyResponseIteration ==
    /\ relay.pc = "loop" /\ relay.flusher
    /\ \E rd \in ReadResults(relay.body, relay.pos) : relay' = copyIteration(relay, rd)
    /\ UNCHANGED notRelayVars

IoCopyIteration ==
    /\ relay.pc = "loop" /\ ~relay.flusher
    /\ \E rd \in ReadResults(relay.body, relay.pos) : relay' = ioCopyIteration(relay, rd)
    /\ UNCHANGED notRelayVars

\* the inbound caller closes its connection
CallerDisconnects ==
    /\ relay.pc = "loop" /\ ~relay.gone
    /\ relay' = [relay EXCEPT !.gone = TRUE, !.last = "Disconnect"]
    /\ UNCHANGED notRelayVars

NextRelay ==
    \/ CopyResponseBegin
    \/ CopyResponseIteration
    \/ IoCopyIteration
    \/ CallerDisconnects

SpecRelay == InitRelay /\ [][NextRelay]_vars

(* ------- the upstream request: rewritten body, credential headers ------- *)
\* top-level field names, in the order json.Marshal writes the keys of a map
FieldNames == <<"max_tokens", "messages", "model">>

\* JSON values as they are written in a body: strings, booleans and number
\* literals (an integer, the same integer written with a fraction, and an
\* integer that no float64 holds)
JsonValues ==
    { [t |-> "string", v |-> "m0"], [t |-> "string", v |-> "m1"], [t |-> "bool", v |-> "true"],
      [t |-> "number", v |-> "1"], [t |-> "number", v |-> "1.0"],
      [t |-> "number", v |-> "9007199254740993"] }

\* the number a literal denotes, named by its shortest decimal form
NumberOf(lit) == IF lit = "1.0" THEN "1" ELSE lit

\* the float64 nearest to a number (2^53 + 1 rounds to 2^53)
Float64(num) == IF num = "9007199254740993" THEN "9007199254740992" ELSE num

\* a body is a sequence of members <<name, value>> with distinct names
Members == {<<FieldNames[i], v>> : i \in 1..Len(FieldNames), v \in JsonValues}

JsonObjects ==
    {b \in UNION {[1..n -> Members] : n \in 0..MaxFields} :
        \A i, j \in 1..Len(b) : i # j => b[i][1] # b[j][1]}

\* the document a body denotes: a function from names to values, numbers by value
Denotes(b) ==
    [k \in {b[i][1] : i \in 1..Len(b)} |->
        LET val == (CHOOSE m \in {b[i] : i \in 1..Len(b)} : m[1] = k)[2]
        IN  IF val.t = "number" THEN [val EXCEPT !.v = NumberOf(val.v)] ELSE val]

\* json.Unmarshal into map[string]interface{}: every number becomes a float64
jsonUnmarshal(b) ==
    LET d == Denotes(b)
    IN  [k \in DOMAIN d |-> IF d[k].t = "number" THEN [d[k] EXCEPT !.v = Float64(d[k].v)] ELSE d[k]]

\* json.Marshal of the map: members in key order
RECURSIVE MarshalFrom(_, _)
MarshalFrom(m, i) ==
    IF i > Len(FieldNames) THEN <<>>
    ELSE (IF FieldNames[i] \in DOMAIN m THEN << <<FieldNames[i], m[FieldNames[i]]>> >> ELSE <<>>)
         \o MarshalFrom(m, i + 1)

jsonMarshal(m) == MarshalFrom(m, 1)

\* requestBody["model"] = targetModel
SetModel(m, targetModel) ==
    [k \in DOMAIN m \cup {"model"} |->
        IF k = "model" THEN [t |-> "string", v |-> targetModel] ELSE m[k]]

\* modifyRequestModel on a body that is a JSON object: the bytes it returns
modifyRequestModelBody(bodyBytes, targetModel) ==
    jsonMarshal(SetModel(jsonUnmarshal(bodyBytes), targetModel))

\* modifiedBody in handleMessages
modifiedBody(bodyBytes, targetModel) ==
    IF targetModel # "" THEN modifyRequestModelBody(bodyBytes, targetModel) ELSE bodyBytes

\* the credential headers of a request; <<>> stands for an absent header
Header(authorization, xApiKey) == [Authorization |-> authorization, XApiKey |-> xApiKey]

\* what a client sends: nothing, a placeholder bearer token, a placeholder key
ClientHeaders ==
    {Header(a, k) : a \in {<<>>, <<"Bearer", "placeholder">>}, k \in {<<>>, <<"placeholder">>}}

\* the providers a selection may return
ForwardProviders ==
    { Provider("P1", "on", [Env("tok1", "", "m1") EXCEPT !.ANTHROPIC_BASE_URL = "https://up1"]),
      Provider("P2", "on", [Env("", "key2", "") EXCEPT !.ANTHROPIC_BASE_URL = "https://up2"]),
      Provider("P3", "on", [Env("tok3", "key3", "m0") EXCEPT !.ANTHROPIC_BASE_URL = "https://up3"]) }

\* proxyReq.Header = r.Header.Clone(), then the provider's credential is set
setAuthHeader(header, env) ==
    IF env.ANTHROPIC_AUTH_TOKEN # ""
    THEN [header EXCEPT !.Authorization = <<"Bearer", env.ANTHROPIC_AUTH_TOKEN>>]
    ELSE IF env.ANTHROPIC_API_KEY # "" THEN [header EXCEPT !.XApiKey = <<env.ANTHROPIC_API_KEY>>]
         ELSE header

\* the upstream request handleMessages builds for a selected provider
NewProxyRequest(provider, header, bodyBytes) ==
    [fn |-> "handleMessages", provider |-> provider, inHeader |-> header, inBody |-> bodyBytes,
     url |-> <<provider.Env.ANTHROPIC_BASE_URL, "/v1/messages">>,
     header |-> setAuthHeader(header, provider.Env),
     body |-> modifiedBody(bodyBytes, provider.Env.ANTHROPIC_MODEL)]

\* the upstream request forwardRequest builds: the body is passed through
ForwardedRequest(provider, header, bodyBytes) ==
    [fn |-> "forwardRequest", provider |-> provider, inHeader |-> header, inBody |-> bodyBytes,
     url |-> <<provider.Env.ANTHROPIC_BASE_URL, "/v1/other">>,
     header |-> setAuthHeader(header, provider.Env),
     body |-> bodyBytes]

InitForward == InitManager({"default"}, TripProviderLists) /\ conf = NoConf

notForwardVars == <<now, routerVars, histVars, proxyVars, sessionVars, mu, callbacks, shutdownChan, service,
                    graph, call, busy, orch, relay, answer, lockVars, expiry, conf, lateVars>>

\* POST /v1/messages up to httpClient.Do
MessagesRequest ==
    /\ proxyReq.fn = "none"
    /\ \E p \in ForwardProviders, h \in ClientHeaders, b \in JsonObjects :
          proxyReq' = NewProxyRequest(p, h, b)
    /\ UNCHANGED notForwardVars

\* any other /v1/ route up to httpClient.Do
OtherRequest ==
    /\ proxyReq.fn = "none"
    /\ \E p \in ForwardProviders, h \in ClientHeaders, b \in JsonObjects :
          proxyReq' = ForwardedRequest(p, h, b)
    /\ UNCHANGED notForwardVars

\* the handler returns
RequestReturns ==
    /\ proxyReq.fn # "none"
    /\ proxyReq' = [fn |-> "none"]
    /\ UNCHANGED notForwardVars

NextForward == MessagesRequest \/ OtherRequest \/ RequestReturns

SpecForward == InitForward /\ [][NextForward]_vars

(* ------------- the routes of the API listener and their answers --------- *)
ApiRoutes ==
    {"/ccenv/register", "/ccenv/unregister", "/ccenv/heartbeat", "/ccenv/status", "/ccenv/client/",
     "/v1/messages", "/v1/other", "/health", "/other"}

\* a request as the handlers see it: its route and method, whether its body
\* can be read and decoded (for /ccenv/client/: whether the path names an id),
\* whether the thing it asks for is there (a provider
\* for the forwarding routes, the client for the session routes), whether the
\* upstream request could be built, and whether the upstream answered
Requests ==
    [route : ApiRoutes, method : Methods, decodes : BOOLEAN, have : BOOLEAN,
     built : BOOLEAN, sent : BOOLEAN]

\* an answer: origin "proxy" or "upstream", the status, the shape of the body
\* and, for the error envelope, error.type
Answer(origin, status, shape, errType) ==
    [origin |-> origin, status |-> status, shape |-> shape, errType |-> errType]

\* {type: "error", error: {type, message}}
writeAnthropicError(statusCode, errorType) == Answer("proxy", statusCode, "envelope", errorType)

\* {success, message, count} written by the session routes
ClientResponse(statusCode) == Answer("proxy", statusCode, "ClientResponse", "")

\* the upstream's own answer, relayed by copyResponse
Relayed == Answer("upstream", 200, "upstream", "")

handleClientRegister(r) ==
    IF r.method # "POST" THEN ClientResponse(405)
    ELSE IF ~r.decodes THEN ClientResponse(400)
    ELSE ClientResponse(200)

handleClientUnregister(r) ==
    IF r.method # "POST" THEN ClientResponse(405)
    ELSE IF ~r.decodes THEN ClientResponse(400)
    ELSE ClientResponse(200)

handleClientHeartbeat(r) ==
    IF r.method # "POST" THEN ClientResponse(405)
    ELSE IF ~r.decodes THEN ClientResponse(400)
    ELSE ClientResponse(200)

handleClientInfo(r) ==
    IF r.method # "GET" THEN ClientResponse(405)
    ELSE IF ~r.decodes THEN ClientResponse(400)
    ELSE IF ~r.have THEN ClientResponse(404)
    ELSE Answer("proxy", 200, "ClientInfo", "")

handleClientStatus(r) ==
    IF r.method # "GET" THEN ClientResponse(405)
    ELSE Answer("proxy", 200, "ClientStatusResponse", "")

handleMessagesAnswer(r) ==
    IF r.method # "POST" THEN writeAnthropicError(405, "invalid_request_error")
    ELSE IF ~r.have THEN writeAnthropicError(503, "overloaded_error")
    ELSE IF ~r.decodes THEN writeAnthropicError(400, "invalid_request_error")
    ELSE IF ~r.built THEN writeAnthropicError(500, "api_error")
    ELSE IF ~r.sent THEN writeAnthropicError(502, "api_error")
    ELSE Relayed

forwardRequestAnswer(r) ==
    IF ~r.decodes THEN writeAnthropicError(400, "invalid_request_error")
    ELSE IF ~r.built THEN writeAnthropicError(500, "api_error")
    ELSE IF ~r.sent THEN writeAnthropicError(502, "api_error")
    ELSE Relayed

handleV1RoutesAnswer(r) ==
    IF ~r.have THEN writeAnthropicError(503, "overloaded_error") ELSE forwardRequestAnswer(r)

handleHealthAnswer(r) ==
    IF ~r.have THEN writeAnthropicError(503, "overloaded_error") ELSE forwardRequestAnswer(r)

handleCatchAll(r) == writeAnthropicError(404, "invalid_request_error")

\* the mux of NewProxyServer
ServeMux(r) ==
    CASE r.route = "/ccenv/register" -> handleClientRegister(r)
      [] r.route = "/ccenv/unregister" -> handleClientUnregister(r)
      [] r.route = "/ccenv/heartbeat" -> handleClientHeartbeat(r)
      [] r.route = "/ccenv/status" -> handleClientStatus(r)
      [] r.route = "/ccenv/client/" -> handleClientInfo(r)
      [] r.route = "/v1/messages" -> handleMessagesAnswer(r)
      [] r.route = "/v1/other" -> handleV1RoutesAnswer(r)
      [] r.route = "/health" -> handleHealthAnswer(r)
      [] OTHER -> handleCatchAll(r)

InitRoutes == InitManager({"default"}, TripProviderLists) /\ conf = NoConf

notRouteVars == <<now, routerVars, histVars, proxyVars, sessionVars, mu, callbacks, shutdownChan, service,
                  graph, call, busy, orch, relay, proxyReq, lockVars, expiry, conf, lateVars>>

\* a request is served and answered
ServeHTTP ==
    /\ \E r \in Requests : answer' = [req |-> r, resp |-> ServeMux(r)]
    /\ UNCHANGED notRouteVars

NextRoutes == ServeHTTP

SpecRoutes == InitRoutes /\ [][NextRoutes]_vars

(* -------- ProviderManager under concurrent requests: pm.mutex ----------- *)
Threads == 1..NumThreads

\* the providers the concurrent requests run over
LockProviderLists ==
    { << Provider("P1", "on", Env("tok1", "", "m1")),
         Provider("P2", "on", Env("", "key2", "")) >> }

\* a request goroutine: where it is, the provider it selected, the
\* FailureCount it read, and what httpClient.Do gave ("error", "5xx" or "ok");
\* the locals are cleared once nothing reads them any more
Thread(pc, sel, cnt, up) == [pc |-> pc, sel |-> sel, cnt |-> cnt, up |-> up]

\* the pcs at which a goroutine is inside a ProviderManager call, past Lock
InCall == {"gnp.update", "gnp.pick", "gnp.advance", "rf.read", "rf.write", "rs.write"}

\* variant: Lock never waits
mutexLockFree(m) == TRUE

\* pm.mutex.Lock() goes through when nobody holds the mutex
mutexLock(m) == m = 0

\* variant: the mutex stays with the goroutine after the call returns
mutexUnlockKept(m) == m

\* the deferred pm.mutex.Unlock()
mutexUnlock(m) == 0

InitLock == InitManager(Strategies, LockProviderLists) /\ conf = NoConf

notLockVars == <<now, routingStrategy, histVars, proxyVars, sessionVars, mu, callbacks, shutdownChan, service,
                 graph, call, busy, orch, relay, proxyReq, answer, expiry, conf, lateVars>>

\* GetNextProvider is called: pm.mutex.Lock()
GetNextProviderLock(t) ==
    /\ threads[t].pc = "idle"
    /\ mutexLock(pmMutex)
    /\ pmMutex' = t
    /\ threads' = [threads EXCEPT ![t] = Thread("gnp.update", 0, 0, "")]
    /\ UNCHANGED <<providers, robinIndex, lockHist, notLockVars>>

\* pm.updateProviderStates()
GetNextProviderUpdate(t) ==
    /\ threads[t].pc = "gnp.update"
    /\ providers' = updateProviderStates(providers, now)
    /\ threads' = [threads EXCEPT ![t].pc = "gnp.pick"]
    /\ lockHist' = [lockHist EXCEPT !.fails =
                       [i \in DOMAIN @ |-> IF providers'[i].FailureCount = 0 THEN 0 ELSE @[i]]]
    /\ UNCHANGED <<robinIndex, pmMutex, notLockVars>>

\* getAvailableProviders, then the pick: no provider (error), the default
\* strategy or a single provider (return), or robin up to
\* selected := availableProviders[pm.robinIndex]
GetNextProviderPick(t) ==
    /\ threads[t].pc = "gnp.pick"
    /\ LET availableProviders == getAvailableProviders(providers)
       IN  IF Len(availableProviders) = 0
           THEN /\ threads' = [threads EXCEPT ![t] = Thread("idle", 0, 0, "")]
                /\ pmMutex' = mutexUnlock(pmMutex)
                /\ UNCHANGED <<robinIndex, lockHist>>
           ELSE IF routingStrategy = "robin" /\ Len(availableProviders) > 1
           THEN LET j == robinIndex % Len(availableProviders)
                IN  /\ robinIndex' = j
                    /\ threads' = [threads EXCEPT ![t].pc = "gnp.advance", ![t].sel = availableProviders[j + 1]]
                    /\ lockHist' = [lockHist EXCEPT !.reads = <<lockHist.reads[2], j>>]
                    /\ UNCHANGED pmMutex
           ELSE /\ threads' = [threads EXCEPT
                                  ![t].pc = "upstream",
                                  ![t].sel = IF routingStrategy = "robin" THEN availableProviders[1]
                                             ELSE getNextDefault(providers, availableProviders)]
                /\ pmMutex' = mutexUnlock(pmMutex)
                /\ UNCHANGED <<robinIndex, lockHist>>
    /\ UNCHANGED <<providers, notLockVars>>

\* pm.robinIndex++ and the return
GetNextProviderAdvance(t) ==
    /\ threads[t].pc = "gnp.advance"
    /\ robinIndex' = robinIndex + 1
    /\ threads' = [threads EXCEPT ![t].pc = "upstream"]
    /\ pmMutex' = mutexUnlock(pmMutex)
    /\ UNCHANGED <<providers, lockHist, notLockVars>>

\* httpClient.Do returns: an error, a status of 500 and more, or a success
UpstreamReturns(t) ==
    /\ threads[t].pc = "upstream"
    /\ \E up \in {"error", "5xx", "ok"} :
          threads' = [threads EXCEPT ![t].pc = "record", ![t].up = up]
    /\ UNCHANGED <<providers, robinIndex, pmMutex, lockHist, notLockVars>>

\* RecordFailure or RecordSuccess is called: pm.mutex.Lock()
RecordLock(t) ==
    /\ threads[t].pc = "record"
    /\ mutexLock(pmMutex)
    /\ pmMutex' = t
    /\ threads' = [threads EXCEPT ![t].pc = IF threads[t].up = "ok" THEN "rs.write" ELSE "rf.read"]
    /\ UNCHANGED <<providers, robinIndex, lockHist, notLockVars>>

\* ps.FailureCount++, its read
RecordFailureRead(t) ==
    /\ threads[t].pc = "rf.read"
    /\ threads' = [threads EXCEPT ![t].pc = "rf.write", ![t].cnt = providers[threads[t].sel].FailureCount]
    /\ UNCHANGED <<providers, robinIndex, pmMutex, lockHist, notLockVars>>

\* ps.FailureCount++, its write, the cooldown at 5, and the return
RecordFailureWrite(t) ==
    /\ threads[t].pc = "rf.write"
    /\ LET i == threads[t].sel
       IN  /\ providers' = RecordFailure([providers EXCEPT ![i].FailureCount = threads[t].cnt],
                                         providers[i].Provider.Name, now)
           /\ lockHist' = [lockHist EXCEPT !.fails[i] = @ + 1]
    /\ threads' = [threads EXCEPT ![t] = Thread(IF threads[t].up = "5xx" THEN "streaming" ELSE "idle", 0, 0, "")]
    /\ pmMutex' = mutexUnlock(pmMutex)
    /\ UNCHANGED <<robinIndex, notLockVars>>

\* RecordSuccess inside the lock, and the return
RecordSuccessWrite(t) ==
    /\ threads[t].pc = "rs.write"
    /\ LET i == threads[t].sel
       IN  /\ providers' = RecordSuccess(providers, providers[i].Provider.Name)
           /\ lockHist' = [lockHist EXCEPT !.fails[i] = 0]
    /\ threads' = [threads EXCEPT ![t] = Thread("streaming", 0, 0, "")]
    /\ pmMutex' = mutexUnlock(pmMutex)
    /\ UNCHANGED <<robinIndex, notLockVars>>

\* copyResponse ends and the handler returns
StreamingEnds(t) ==
    /\ threads[t].pc = "streaming"
    /\ threads' = [threads EXCEPT ![t] = Thread("idle", 0, 0, "")]
    /\ UNCHANGED <<providers, robinIndex, pmMutex, lockHist, notLockVars>>

NextLock ==
    \E t \in Threads :
        \/ GetNextProviderLock(t)
        \/ GetNextProviderUpdate(t)
        \/ GetNextProviderPick(t)
        \/ GetNextProviderAdvance(t)
        \/ UpstreamReturns(t)
        \/ RecordLock(t)
        \/ RecordFailureRead(t)
        \/ RecordFailureWrite(t)
        \/ RecordSuccessWrite(t)
        \/ StreamingEnds(t)

SpecLock == InitLock /\ [][NextLock]_vars

(* ------------------- the status report and the cooldown ---------------- *)
\* pm.GetProviderStatus(): one entry per provider, disabled_until only when
\* DisabledUntil is not the zero time (a sequence of no or one value)
GetProviderStatus(ps) ==
    [i \in 1..Len(ps) |->
        [name |-> ps[i].Provider.Name,
         state |-> ps[i].Provider.State,
         failure_count |-> ps[i].FailureCount,
         is_disabled |-> ps[i].IsDisabled,
         disabled_until |-> IF ps[i].DisabledUntil # ZeroTime THEN <<ps[i].DisabledUntil>> ELSE <<>>]]

\* the providers whose cooldown deadline has passed at time t and that are
\* still marked disabled
PastDeadline(ps, t) ==
    {i \in 1..Len(ps) : ps[i].IsDisabled /\ ps[i].DisabledUntil # ZeroTime /\ t > ps[i].DisabledUntil}

InitStatus == InitManager(Strategies, CooldownProviderLists) /\ conf = NoConf

notStatusVars == <<proxyVars, sessionVars, mu, callbacks, shutdownChan, service, graph, call, busy, orch,
                   relay, proxyReq, answer, lockVars, conf, lateVars>>

\* one call of pm.GetProviderStatus(): it reads under RLock and writes nothing
GetProviderStatusCall ==
    LET status == GetProviderStatus(providers)
    IN  /\ lastOp' = Op("GetProviderStatus", "", 0)
        /\ expiry' = [expiry EXCEPT !.reported =
                          {i \in PastDeadline(providers, now) : status[i].is_disabled}]
        /\ UNCHANGED <<now, routerVars, selRun, fifthAt, selected, notStatusVars>>

\* one call of pm.GetNextProvider(), the providers it found past their
\* deadline put on record
GetNextProviderReconciles ==
    LET g == GetNextProvider(providers, routingStrategy, robinIndex, now)
    IN  /\ providers' = g.providers
        /\ robinIndex' = g.robinIndex
        /\ lastOp' = Op("GetNextProvider", "", g.selected)
        /\ selRun' = NextRun(selRun)
        /\ expiry' = [expiry EXCEPT !.expired = PastDeadline(providers, now)]
        /\ UNCHANGED <<now, routingStrategy, fifthAt, selected, notStatusVars>>

NextStatus ==
    \/ Tick
    \/ GetProviderStatusCall
    \/ GetNextProviderReconciles
    \/ RecordFailureCall
    \/ RecordSuccessCall

SpecStatus == InitStatus /\ [][NextStatus]_vars

(* --------------------- settings.json and its watcher ------------------- *)
\* the service is started from settings.json as it is, and MaxWrites writes
\* are to come
InitConfig ==
    /\ InitManager(Strategies, SnapshotProviderLists)
    /\ conf = [file |-> [err |-> FALSE,
                         cfg |-> [Routing |-> [Strategy |-> routingStrategy],
                                  Providers |-> [i \in 1..Len(providers) |-> providers[i].Provider],
                                  LLMProxyPort |-> graph.apiPort, AdminPort |-> graph.adminPort]],
               writes |-> MaxWrites, events |-> 0]

\* the graph is up and is the one a start from cfg builds: both listeners
\* serving on cfg's ports, the router over cfg's providers and strategy
BuiltFrom(cfg) ==
    /\ orch.pc = "loop"
    /\ graph.llm = "serving" /\ graph.admin = "serving"
    /\ graph.apiPort = cfg.LLMProxyPort /\ graph.adminPort = cfg.AdminPort
    /\ routingStrategy = cfg.Routing.Strategy
    /\ [i \in 1..Len(providers) |-> providers[i].Provider] = cfg.Providers

\* settings.json is written: new content, and one write event for the watcher
ConfigFileWrite ==
    /\ conf.writes > 0
    /\ \E content \in LoadConfig :
          conf' = [file |-> content, writes |-> conf.writes - 1, events |-> conf.events + 1]
    /\ UNCHANGED <<now, routerVars, histVars, proxyVars, sessionVars, mu, callbacks, shutdownChan, service,
                   graph, call, busy, orch, relay, proxyReq, answer, lockVars, expiry, lateVars>>

\* case event := <-cw.watcher.Events: an event less than a second after the
\* last one that was handled is skipped, otherwise the file is loaded as it
\* is now and the result handed on
WatchEvent ==
    /\ orch.pc # "returned" /\ orch.watcher = "select"
    /\ conf.events > 0
    /\ conf' = [conf EXCEPT !.events = @ - 1]
    /\ \E soon \in BOOLEAN :
          /\ soon => orch.lastReload
          /\ orch' = IF soon
                     THEN [orch EXCEPT !.last = Last("WatchSkip", FALSE, FALSE)]
                     ELSE [watchLoopLoad(orch, conf.file) EXCEPT
                              !.lastReload = TRUE,
                              !.last = Last(IF conf.file.err THEN "WatchLoadError" ELSE "WatchLoad",
                                            FALSE, FALSE)]
    /\ UNCHANGED <<now, routerVars, histVars, proxyVars, sessionVars, mu, callbacks, shutdownChan, service,
                   graph, call, busy, relay, proxyReq, answer, lockVars, expiry, lateVars>>

NextConfig ==
    \/ OrchStart
    \/ ConfigFileWrite
    \/ WatchEvent
    \/ WatchSendError
    \/ OrchReload
    \/ OrchError

SpecConfig == InitConfig /\ [][NextConfig]_vars

\* the watcher goroutine and the event loop keep running
ConfigFairness ==
    /\ WF_vars(OrchStart)
    /\ WF_vars(WatchEvent)
    /\ WF_vars(WatchSendError)
    /\ WF_vars(OrchReload)
    /\ WF_vars(OrchError)

FairConfig == SpecConfig /\ ConfigFairness

(* ------------- the ProxyServer that a reload has shut down ------------- *)
\* ProxyServer.Shutdown: the HTTP server is shut down; the goroutine of
\* startClientCleanupTask has no stop channel and the ClientManager keeps
\* its sessions and its callback
ProxyServerShutdown(cl, cb) ==
    [down |-> TRUE, clients |-> cl, onEmpty |-> cb, swept |-> FALSE, fired |-> FALSE]

\* the reload of ReloadService, the server it shuts down kept on record
ReloadTearsDown ==
    /\ InLoop /\ mu = ""
    /\ \E loggerOk \in BOOLEAN, pl \in TripProviderLists :
          IF loggerOk
          THEN LET pm == NewProviderManager(Config(routingStrategy, pl))
               IN  /\ providers' = pm.providers
                   /\ routingStrategy' = pm.routingStrategy
                   /\ robinIndex' = pm.robinIndex
                   /\ clients' = NewClientManager.clients
                   /\ onEmpty' = NewClientManager.onEmpty
                   /\ service' = [loop |-> TRUE, serving |-> TRUE, run |-> "reloaded"]
                   /\ lastClientOp' = [ClientOp("Reload", "", {}, 0) EXCEPT !.ret = TRUE]
          ELSE /\ service' = [service EXCEPT !.serving = FALSE]
               /\ lastClientOp' = ClientOp("Reload", "", {}, 0)
               /\ UNCHANGED <<routerVars, clients, onEmpty>>
    /\ torn' = IF service.serving THEN ProxyServerShutdown(clients, onEmpty) ELSE torn
    /\ UNCHANGED <<now, histVars, proxyVars, mu, callbacks, shutdownChan, graph, call, busy, orch,
                   relay, proxyReq, answer, lockVars, expiry, conf, iso, hb>>

\* cleanupTicker of the shut-down server fires: its loop is still running
\* as long as the process is
TornDownCleanupTick ==
    /\ service.loop /\ torn.down
    /\ LET c == CleanupInactiveClients(torn.clients, torn.onEmpty, now, InactivityTimeout)
       IN  /\ BagCardinality(callbacks) + c.started <= MaxCallbacks
           /\ torn' = [torn EXCEPT !.clients = c.clients, !.swept = TRUE,
                                   !.fired = @ \/ c.started > 0]
           /\ callbacks' = callbacks (+) Started("CleanupInactiveClients", c.started, c.async)
           /\ lastClientOp' = ClientOp("TornDownCleanup", "", c.removed, c.started)
    /\ UNCHANGED <<now, clients, onEmpty, routerVars, histVars, proxyVars, mu, shutdownChan, service,
                   graph, call, busy, orch, relay, proxyReq, answer, lockVars, expiry, conf, iso, hb>>

NextTornDown == NextService \/ ReloadTearsDown \/ TornDownCleanupTick

SpecTornDown == InitService /\ [][NextTornDown]_vars

(* --------- requests in flight across a configuration reload ------------ *)
\* a request a handler of LLMProxyServer `server` ("old": replaced by a
\* reload, "new": the one now in the graph) is working on, with the name of
\* the provider GetNextProvider gave it
InFlight(server, prov) == [server |-> server, prov |-> prov]

IsoOp(op, server, prov) == [op |-> op, server |-> server, prov |-> prov]

\* variant: the handlers share the ProviderManager of the newest server
HeldManagerShared(r) == "new"

\* s.providerManager of the LLMProxyServer handling r, set once by NewLLMProxyServer
HeldManager(r) == r.server

InitIsolation == InitManager(Strategies, TripProviderLists) /\ conf = NoConf

notIsoVars == <<histVars, proxyVars, sessionVars, mu, callbacks, shutdownChan, service, graph, call, busy,
                orch, relay, proxyReq, answer, lockVars, expiry, conf, torn, hb>>

\* a handler of the server in the graph, up to the provider it is given
IsoAccept ==
    /\ BagCardinality(iso.inflight) < NumRequests
    /\ LET g == GetNextProvider(providers, routingStrategy, robinIndex, now)
       IN  /\ providers' = g.providers
           /\ robinIndex' = g.robinIndex
           /\ iso' = IF g.selected = 0
                     THEN [iso EXCEPT !.last = IsoOp("accept", "new", "")]
                     ELSE LET n == g.providers[g.selected].Provider.Name
                          IN  [iso EXCEPT !.inflight = @ (+) SetToBag({InFlight("new", n)}),
                                          !.last = IsoOp("accept", "new", n)]
    /\ UNCHANGED <<now, routingStrategy, notIsoVars>>

\* a handler returns: RecordFailure or RecordSuccess on the ProviderManager
\* its server holds
IsoFinish ==
    \E r \in BagToSet(iso.inflight), failed \in BOOLEAN :
        LET m == HeldManager(r)
            ps == IF m = "new" THEN providers ELSE iso.old[1].providers
            after == IF failed THEN RecordFailure(ps, r.prov, now) ELSE RecordSuccess(ps, r.prov)
        IN  /\ \A i \in 1..Len(ps) : ps[i].FailureCount < MaxFailureCount
            /\ providers' = IF m = "new" THEN after ELSE providers
            /\ iso' = [iso EXCEPT !.inflight = @ (-) SetToBag({r}),
                                  !.old = IF m = "new" THEN @ ELSE <<[@[1] EXCEPT !.providers = after]>>,
                                  !.last = IsoOp(IF failed THEN "failure" ELSE "success", r.server, r.prov)]
            /\ UNCHANGED <<now, routingStrategy, robinIndex, notIsoVars>>

\* case newConfig := <-configWatcher.GetReloadChan(): a new ProviderManager
\* and a new LLMProxyServer; the handlers still running belong to the old
\* server, whose Shutdown gives them 5 seconds
IsoReload ==
    /\ \A r \in BagToSet(iso.inflight) : r.server = "new"
    /\ \E pl \in TripProviderLists :
          LET pm == NewProviderManager(Config(routingStrategy, pl))
          IN  /\ providers' = pm.providers
              /\ routingStrategy' = pm.routingStrategy
              /\ robinIndex' = pm.robinIndex
    /\ iso' = [old |-> <<[providers |-> providers, robinIndex |-> robinIndex]>>,
               inflight |-> BagOfAll(LAMBDA r : InFlight("old", r.prov), iso.inflight),
               last |-> IsoOp("reload", "", "")]
    /\ UNCHANGED <<now, notIsoVars>>

NextIsolation == IsoAccept \/ IsoFinish \/ IsoReload

SpecIsolation == InitIsolation /\ [][NextIsolation]_vars

(* ------------- a client's heartbeat loop against the tracker ------------ *)
\* the client process: main is ExecuteClaudeWithProxy ("start", "running",
\* "closed": heartbeatStopChan closed, "exited": unregister sent and the
\* process gone), pc is the goroutine of startHeartbeat ("off", "select",
\* "heartbeat": request sent, "register": registerClient called,
\* "returned"), tick: ticker.C holds a value, last: the loop's last step
Heartbeat(main, pc, tick, last) == [main |-> main, pc |-> pc, tick |-> tick, last |-> last]

\* heartbeatStopChan is closed
Closed(h) == h.main \in {"closed", "exited"}

\* the goroutine exists and has not returned
Looping(h) == h.main \in {"running", "closed"} /\ h.pc # "returned"

\* variant: an unsuccessful heartbeat is only logged
afterHeartbeatLogs(success) == "select"

\* startHeartbeat after a heartbeat was answered: if !resp.Success, registerClient
afterHeartbeat(success) == IF success THEN "select" ELSE "register"

InitHeartbeat == InitManager({"default"}, TripProviderLists) /\ conf = NoConf

notHbVars == <<routerVars, histVars, proxyVars, onEmpty, lastClientOp, mu, callbacks, shutdownChan, service,
               graph, call, busy, orch, relay, proxyReq, answer, lockVars, expiry, conf, torn, iso>>

\* ExecuteClaudeWithProxy up to `go startHeartbeat(...)`: the client is
\* registered with a proxy that was running, or has started its own
HbStart ==
    /\ hb.main = "start"
    /\ \E reuse \in BOOLEAN :
          clients' = IF reuse THEN RegisterClient(clients, LiveClient, now) ELSE clients
    /\ hb' = Heartbeat("running", "select", FALSE, "start")
    /\ UNCHANGED <<now, notHbVars>>

\* time passes
HbPause ==
    /\ now < MaxTime
    /\ now' = now + 1
    /\ hb' = [hb EXCEPT !.last = "pause"]
    /\ UNCHANGED <<clients, notHbVars>>

\* the 30 s ticker fires
HbTicker ==
    /\ Looping(hb) /\ ~hb.tick
    /\ hb' = [hb EXCEPT !.tick = TRUE, !.last = "ticker"]
    /\ UNCHANGED <<now, clients, notHbVars>>

\* case <-ticker.C: the heartbeat request is sent
HbSend ==
    /\ Looping(hb) /\ hb.pc = "select" /\ hb.tick
    /\ hb' = [hb EXCEPT !.pc = "heartbeat", !.tick = FALSE,
                        !.last = IF Closed(hb) THEN "send.closed" ELSE "send"]
    /\ UNCHANGED <<now, clients, notHbVars>>

\* handleClientHeartbeat answers and the loop acts on resp.Success
HbAnswer ==
    /\ Looping(hb) /\ hb.pc = "heartbeat"
    /\ LET h == UpdateHeartbeat(clients, LiveClient, now)
       IN  /\ clients' = h.clients
           /\ hb' = [hb EXCEPT !.pc = afterHeartbeat(h.ret),
                               !.last = IF h.ret THEN "heartbeat.true" ELSE "heartbeat.false"]
    /\ UNCHANGED <<now, notHbVars>>

\* sendClientRequest returns an error: logged, back to the select
HbRequestFails ==
    /\ Looping(hb) /\ hb.pc \in {"heartbeat", "register"}
    /\ hb' = [hb EXCEPT !.pc = "select", !.last = "error"]
    /\ UNCHANGED <<now, clients, notHbVars>>

\* registerClient(host, port, clientID) reaches handleClientRegister
HbRegister ==
    /\ Looping(hb) /\ hb.pc = "register"
    /\ clients' = RegisterClient(clients, LiveClient, now)
    /\ hb' = [hb EXCEPT !.pc = "select", !.last = "register"]
    /\ UNCHANGED <<now, notHbVars>>

\* case <-stopChan: return
HbStop ==
    /\ Looping(hb) /\ hb.pc = "select" /\ Closed(hb)
    /\ hb' = [hb EXCEPT !.pc = "returned", !.last = "stop"]
    /\ UNCHANGED <<now, clients, notHbVars>>

\* the deferred function of ExecuteClaudeWithProxy: close(heartbeatStopChan)
HbClose ==
    /\ hb.main = "running"
    /\ hb' = [hb EXCEPT !.main = "closed", !.last = "close"]
    /\ UNCHANGED <<now, clients, notHbVars>>

\* ... then unregisterClient, and the process ends
HbUnregister ==
    /\ hb.main = "closed"
    /\ \E reached \in BOOLEAN :
          clients' = IF reached THEN UnregisterClient(clients, onEmpty, LiveClient).clients ELSE clients
    /\ hb' = [hb EXCEPT !.main = "exited", !.last = "exit"]
    /\ UNCHANGED <<now, notHbVars>>

\* the tracker's sweep
HbSweep ==
    /\ hb.main # "start"
    /\ clients' = CleanupInactiveClients(clients, onEmpty, now, InactivityTimeout).clients
    /\ hb' = [hb EXCEPT !.last = "sweep"]
    /\ UNCHANGED <<now, notHbVars>>

\* a reload: the new ProxyServer has a new, empty ClientManager
HbRebuild ==
    /\ hb.main # "start"
    /\ clients' = NewClientManager.clients
    /\ hb' = [hb EXCEPT !.last = "rebuild"]
    /\ UNCHANGED <<now, notHbVars>>

NextHeartbeat ==
    \/ HbStart
    \/ HbPause
    \/ HbTicker
    \/ HbSend
    \/ HbAnswer
    \/ HbRequestFails
    \/ HbRegister
    \/ HbStop
    \/ HbClose
    \/ HbUnregister
    \/ HbSweep
    \/ HbRebuild

SpecHeartbeat == InitHeartbeat /\ [][NextHeartbeat]_vars

\* the ticker keeps firing and a ready case of the select is taken; the
\* proxy is reachable: requests that are sent again and again are answered;
\* a select with both cases ready again and again takes each of them
HeartbeatFairness ==
    /\ WF_vars(HbTicker)
    /\ WF_vars(HbSend)
    /\ SF_vars(HbAnswer)
    /\ SF_vars(HbRegister)
    /\ SF_vars(HbStop)

FairHeartbeat == SpecHeartbeat /\ HeartbeatFairness

(* ----------------------------- predicates ------------------------------ *)
HasCredential(i) ==
    providers[i].Provider.Env.ANTHROPIC_AUTH_TOKEN # "" \/ providers[i].Provider.Env.ANTHROPIC_API_KEY # ""

IsOn(i) == providers[i].Provider.State = "on"

\* the providers that are state "on" and not disabled, as a set of indices
Eligible == {i \in 1..Len(providers) : IsOn(i) /\ ~providers[i].IsDisabled}

\* C1: after the failure that brings an on, credentialed provider's count to 5,
\* no selection returns it before 5 minutes have passed, and a selection made
\* later than those 5 minutes re-enables it, zeroes its count and has it
\* in the set the strategy picks from.
C1_CooldownFromFifthFailure ==
    [][lastOp'.op = "GetNextProvider" =>
         \A i \in 1..Len(providers) :
            (IsOn(i) /\ HasCredential(i) /\ fifthAt[i] # 0) =>
               /\ (now < fifthAt[i] + DisableMinutes => lastOp'.ret # i)
               /\ (now > fifthAt[i] + DisableMinutes =>
                      /\ ~providers'[i].IsDisabled
                      /\ providers'[i].FailureCount = 0
                      /\ i \in Eligible')]_vars

\* C8: a provider without any credential is never eligible and never returned.
C8_CredentiallessNeverSelected ==
    \A i \in 1..Len(providers) :
        ~HasCredential(i) =>
            /\ i \notin Eligible
            /\ ~(lastOp.op = "GetNextProvider" /\ lastOp.ret = i)

\* C2: under strategy "default" a selection returns the earliest provider in
\* configuration order that is "on" and not disabled after reconciliation
\* (the error result when there is none), whatever happened before.
C2_FailoverDeterminism ==
    (routingStrategy = "default" /\ lastOp.op = "GetNextProvider") =>
        lastOp.ret = (IF Eligible = {} THEN 0 ELSE Min(Eligible))

\* with [A(off), B(on), C(on)]: B is in cooldown and the selection returned C
C2_Witness ==
    /\ routingStrategy = "default" /\ lastOp.op = "GetNextProvider" /\ lastOp.ret = 3
    /\ ~IsOn(1) /\ IsOn(2) /\ providers[2].IsDisabled /\ providers[2].FailureCount >= FailureThreshold

\* the k-th member of the eligible set in configuration order
NthEligible(k) == CHOOSE i \in Eligible : Cardinality({j \in Eligible : j <= i}) = k

\* C3: under strategy "robin" with n >= 2 providers available and no failure
\* since construction, the k-th selection returns the ((k-1) mod n)+1-th
\* available provider in configuration order.
C3_RoundRobinFairness ==
    (routingStrategy = "robin" /\ lastOp.op = "GetNextProvider" /\ selRun >= 1
        /\ Cardinality(Eligible) >= 2) =>
        lastOp.ret = NthEligible(((selRun - 1) % Cardinality(Eligible)) + 1)

\* three providers available: the 4th selection is back at the first one
C3_Witness ==
    /\ routingStrategy = "robin" /\ lastOp.op = "GetNextProvider"
    /\ Cardinality(Eligible) = 3 /\ selRun = 4 /\ lastOp.ret = 1

\* C9: RecordSuccess(name) zeroes that provider's failureCount and changes
\* nothing else (disabled, disabledUntil, the other providers, the cursor and
\* the eligible set stay as they were); disabled is cleared by GetNextProvider only.
C9_RecordSuccessFrame ==
    [][/\ lastOp'.op = "RecordSuccess" =>
            LET i == FindByName(providers, lastOp'.name)
            IN  /\ providers'[i] = [providers[i] EXCEPT !.FailureCount = 0]
                /\ \A j \in 1..Len(providers) : j # i => providers'[j] = providers[j]
                /\ Len(providers') = Len(providers)
                /\ robinIndex' = robinIndex
                /\ routingStrategy' = routingStrategy
                /\ Eligible' = Eligible
       /\ \A i \in 1..Len(providers) :
            (providers[i].IsDisabled /\ ~providers'[i].IsDisabled) => lastOp'.op = "GetNextProvider"]_vars

\* a success has been recorded for a provider whose cooldown is still running
C9_Witness ==
    \E i \in 1..Len(providers) :
        /\ lastOp = Op("RecordSuccess", providers[i].Provider.Name, 0)
        /\ IsOn(i) /\ HasCredential(i)
        /\ providers[i].IsDisabled /\ providers[i].DisabledUntil >= now
        /\ providers[i].FailureCount = 0

\* C4: whenever the available set is empty at selection time (providers off,
\* credential-less or in cooldown), the request, on any route, is answered
\* with 503 and error.type "overloaded_error", no request goes on towards an
\* upstream call, and no provider has a failure or a success recorded.
C4_NoProviderAnswer ==
    [][(lastResp'.step = "select" /\ Eligible' = {}) =>
          /\ lastResp'.status = 503
          /\ lastResp'.errType = "overloaded_error"
          /\ lastResp'.prov = 0
          /\ lastResp'.record = "none"
          /\ reqs' = reqs
          /\ \A i \in 1..Len(providers) :
                \/ providers'[i] = providers[i]
                \/ providers[i].IsDisabled /\ ~providers'[i].IsDisabled]_vars

\* both providers are in cooldown and a health request was answered 503
C4_Witness ==
    /\ lastResp.step = "select" /\ lastResp.route = "/health"
    /\ lastResp.status = 503 /\ lastResp.errType = "overloaded_error"
    /\ Eligible = {}
    /\ \A i \in 1..Len(providers) :
          IsOn(i) /\ HasCredential(i) /\ providers[i].IsDisabled /\ providers[i].DisabledUntil >= now

\* C5: when the upstream call of a forwarded request returns, a transport
\* failure gives the caller 502 and one more failure on the provider held; a
\* status >= 500 is relayed as it is with one more failure on that provider;
\* any other status is relayed as it is and that provider's failure count is
\* zeroed. No other provider changes, and the request is finished.
C5_UpstreamOutcome ==
    [][lastResp'.step = "upstream" =>
          LET p == lastResp'.prov
              u == lastResp'.up
          IN  /\ u = TransportError =>
                    /\ lastResp'.status = 502 /\ lastResp'.errType = "api_error"
                    /\ providers'[p].FailureCount = providers[p].FailureCount + 1
              /\ u >= 500 =>
                    /\ lastResp'.status = u
                    /\ providers'[p].FailureCount = providers[p].FailureCount + 1
              /\ (u # TransportError /\ u < 500) =>
                    /\ lastResp'.status = u
                    /\ providers'[p] = [providers[p] EXCEPT !.FailureCount = 0]
              /\ \A j \in 1..Len(providers) : j # p => providers'[j] = providers[j]
              /\ BagCardinality(reqs') = BagCardinality(reqs) - 1]_vars

\* an upstream 500 was relayed and it was the provider's fifth failure
C5_Witness ==
    /\ lastResp.step = "upstream" /\ lastResp.up = 500 /\ lastResp.status = 500
    /\ lastResp.record = "failure"
    /\ providers[lastResp.prov].FailureCount = FailureThreshold
    /\ providers[lastResp.prov].IsDisabled

\* C6: under strategy "default" with [P1, P2] both available, once five
\* requests routed to P1 have ended in an upstream 5xx or a transport failure
\* with no success of P1 in between, P1 is disabled, and a selection made then
\* returns P2 (as long as P2 is available).
C6_FiveFailuresTrip ==
    routingStrategy = "default" =>
        /\ streak[1] >= FailureThreshold => (providers[1].IsDisabled /\ 1 \notin Eligible)
        /\ (lastResp.step = "select" /\ streak[1] >= FailureThreshold) =>
              lastResp.prov = (IF 2 \in Eligible THEN 2 ELSE 0)

\* exactly five failures of P1, all from upstream, and the next request got P2
C6_Witness ==
    /\ routingStrategy = "default"
    /\ streak[1] = FailureThreshold /\ providers[1].FailureCount = FailureThreshold
    /\ providers[2].FailureCount = 0
    /\ lastResp.step = "select" /\ lastResp.prov = 2

\* C7: when the provider held declares a target model and the body of a
\* /v1/messages request is not a parseable JSON object, the caller gets 500
\* with an api_error envelope, the provider gets exactly one more failure, and
\* the request never reaches the upstream call.
C7_RewriteFailureAnswer ==
    [][(/\ lastResp'.step = "prepare"
        /\ lastResp'.fn = "handleMessages"
        /\ lastResp'.body \in {"malformed", "empty", "null", "array"}
        /\ providers[lastResp'.prov].Provider.Env.ANTHROPIC_MODEL # "") =>
          /\ lastResp'.status = 500
          /\ lastResp'.errType = "api_error"
          /\ providers'[lastResp'.prov].FailureCount = providers[lastResp'.prov].FailureCount + 1
          /\ BagCardinality(reqs') = BagCardinality(reqs) - 1
          /\ \A s \in BagToSet(reqs') : s.pc = "upstream" => CopiesIn(s, reqs') <= CopiesIn(s, reqs)]_vars

\* C10: a periodic sweep removes exactly the sessions whose last heartbeat is
\* more than the inactivity window (5 minutes) old; with a callback set, the
\* sweep starts it once when it removed something and left no session, and
\* not at all otherwise, so a sweep over an already empty set starts none.
C10_SessionSweep ==
    [][lastClientOp'.op = "CleanupInactiveClients" =>
          LET stale == {id \in DOMAIN clients : now - clients[id].LastPing > InactivityTimeout}
          IN  /\ DOMAIN clients' = DOMAIN clients \ stale
              /\ lastClientOp'.removed = stale
              /\ \A id \in DOMAIN clients' : clients'[id] = clients[id]
              /\ onEmpty => lastClientOp'.started =
                                (IF stale # {} /\ DOMAIN clients' = {} THEN 1 ELSE 0)
              /\ DOMAIN clients = {} => lastClientOp'.started = 0]_vars

\* X, the only session, went 6 minutes without a heartbeat and was swept
C10_Witness ==
    /\ lastClientOp = ClientOp("CleanupInactiveClients", "", {"X"}, 1)
    /\ DOMAIN clients = {}
    /\ onEmpty

\* C13: UpdateHeartbeat(id) on an id that is not registered returns false and
\* leaves the session map as it was (no entry created); on a registered id it
\* returns true and changes nothing but that session's LastPing, set to now.
C13_HeartbeatFrame ==
    [][lastClientOp'.op = "UpdateHeartbeat" =>
          LET id == lastClientOp'.id
          IN  /\ onEmpty' = onEmpty
              /\ IF id \notin DOMAIN clients
                 THEN /\ lastClientOp'.ret = FALSE
                      /\ clients' = clients
                 ELSE /\ lastClientOp'.ret = TRUE
                      /\ DOMAIN clients' = DOMAIN clients
                      /\ clients'[id].LastPing = now
                      /\ clients'[id].RegisterAt = clients[id].RegisterAt
                      /\ \A o \in DOMAIN clients \ {id} : clients'[o] = clients[o]]_vars

\* with X registered, a heartbeat for the unknown Y was refused
C13_Witness ==
    /\ lastClientOp.op = "UpdateHeartbeat" /\ lastClientOp.id = "Y"
    /\ ~lastClientOp.existed /\ ~lastClientOp.ret
    /\ DOMAIN clients = {"X"}

\* C14: RegisterClient(id) on an id already present leaves the number of
\* sessions as it was (one entry per id) and sets that entry's RegisterAt and
\* LastPing to now; every other session is untouched.
C14_RegisterIdempotent ==
    [][lastClientOp'.op = "RegisterClient" =>
          LET id == lastClientOp'.id
          IN  /\ DOMAIN clients' = DOMAIN clients \cup {id}
              /\ clients'[id] = ClientInfo(now, now)
              /\ \A o \in DOMAIN clients \ {id} : clients'[o] = clients[o]
              /\ id \in DOMAIN clients => Cardinality(DOMAIN clients') = Cardinality(DOMAIN clients)]_vars

\* X was registered again, later than Y, with both present
C14_Witness ==
    /\ lastClientOp.op = "RegisterClient" /\ lastClientOp.id = "X" /\ lastClientOp.existed
    /\ DOMAIN clients = {"X", "Y"}
    /\ clients["X"] = ClientInfo(now, now)
    /\ clients["Y"].LastPing < now

\* C11: UnregisterClient(id) on a present id removes the entry and returns
\* true; when that empties the set (and a callback is set) one callback is
\* started, as a task of its own that nothing holding the tracker's lock waits
\* for, so a callback about to call GetClientCount can always go on: either the
\* lock is free or its holder can release it.
C11_UnregisterStartsCallbackAside ==
    /\ (lastClientOp.op = "UnregisterClient" /\ lastClientOp.existed) =>
          /\ lastClientOp.ret
          /\ lastClientOp.id \notin DOMAIN clients
          /\ lastClientOp.removed = {lastClientOp.id}
          /\ lastClientOp.started = (IF DOMAIN clients = {} /\ onEmpty THEN 1 ELSE 0)
          /\ lastClientOp.started = 1 => CallbackTask("grace", "", FALSE) \in BagToSet(callbacks)
    /\ \A t \in BagToSet(callbacks) : t.waitedBy = ""
    /\ (service.loop /\ \E t \in BagToSet(callbacks) : t.pc = "grace") =>
          (ENABLED ShutdownCallbackCheck) \/ (ENABLED Unlock)

\* the last session was unregistered: the callback is started while the
\* unregister still holds the lock
C11_Witness ==
    /\ lastClientOp.op = "UnregisterClient" /\ lastClientOp.ret /\ lastClientOp.started = 1
    /\ mu = "UnregisterClient"
    /\ DOMAIN clients = {}
    /\ BagCardinality(callbacks) = 1

\* C12 (as stated): a callback whose grace period is over asks for the
\* shutdown only if the client count is 0 then, and asks for none if any
\* client registered during its grace period.
C12_GraceAsStated ==
    [][lastClientOp'.op = "onEmpty.check" =>
          /\ lastClientOp'.ret => Cardinality(DOMAIN clients) = 0
          /\ lastClientOp'.existed => ~lastClientOp'.ret]_vars

\* C12: a callback whose grace period is over goes on to send the shutdown
\* request exactly when the client count is 0 at that moment; with a client
\* registered then it sends nothing and the service keeps running. The
\* service stops serving only by a received shutdown request or a signal.
C12_GraceConfirmation ==
    [][/\ lastClientOp'.op = "onEmpty.check" =>
            /\ lastClientOp'.ret = (Cardinality(DOMAIN clients) = 0)
            /\ shutdownChan' = shutdownChan
            /\ service' = service
            /\ IF Cardinality(DOMAIN clients) = 0
               THEN BagCardinality(callbacks') = BagCardinality(callbacks)
               ELSE /\ BagCardinality(callbacks') = BagCardinality(callbacks) - 1
                    /\ \A t \in BagToSet(callbacks') :
                          t.pc = "send" => CopiesIn(t, callbacks') <= CopiesIn(t, callbacks)
       /\ lastClientOp'.op = "onEmpty.send" =>
            \E t \in BagToSet(callbacks) : t.pc = "send" /\ CopiesIn(t, callbacks') < CopiesIn(t, callbacks)
       /\ lastClientOp'.op = "AutoShutdown" => shutdownChan = 1
       /\ (service.serving /\ ~service'.serving) =>
            lastClientOp'.op \in {"AutoShutdown", "SignalShutdown"}]_vars

\* a client registered during the grace period and is still there when it
\* ends: the callback sent nothing and the service is serving
C12_Witness ==
    /\ lastClientOp.op = "onEmpty.check" /\ lastClientOp.existed /\ ~lastClientOp.ret
    /\ DOMAIN clients # {}
    /\ callbacks = EmptyBag /\ shutdownChan = 0
    /\ service.serving

\* C19: a session registered before a configuration reload is still
\* registered, with its entry as it was, once the reload has completed.
C19_SessionsSurviveReload ==
    [][(lastClientOp'.op = "Reload" /\ lastClientOp'.ret) =>
          \A id \in DOMAIN clients : id \in DOMAIN clients' /\ clients'[id] = clients[id]]_vars

\* C15 (as the claim states it): once ServerRoutingManager.Start has returned,
\* either its result is nil and both listeners are serving, or its result is
\* an error and neither listener is serving.
C15_NoPartialGraph ==
    (call.op = "Start" /\ call.result # "none") =>
        \/ call.result = "nil" /\ graph.llm = "serving" /\ graph.admin = "serving"
        \/ call.result = "error" /\ graph.llm # "serving" /\ graph.admin # "serving"

\* C16: ServerRoutingManager.Shutdown has a result only when both listeners'
\* shutdown calls have finished (both listeners closed); the result is an error
\* iff the API listener's or the status listener's shutdown returned an error;
\* and while the call waits, every listener whose shutdown has not finished can
\* still finish it, whatever the other listener's shutdown returned.
C16_ShutdownBoth ==
    call.op = "Shutdown" =>
        /\ call.result # "none" =>
              /\ call.pending = {}
              /\ graph.llm = "closed" /\ graph.admin = "closed"
              /\ (call.result = "error") <=> (call.llmErr \/ call.adminErr)
        /\ call.result = "none" =>
              /\ "llm" \in call.pending => ENABLED LLMShutdownDone
              /\ "admin" \in call.pending => ENABLED AdminShutdownDone
              /\ call.pending = {} => ENABLED ManagerShutdownReturn

\* Shutdown returned an error that only the status listener's shutdown gave,
\* and the API listener is closed all the same
C16_Witness ==
    /\ call.op = "Shutdown" /\ call.result = "error"
    /\ ~call.llmErr /\ call.adminErr
    /\ graph.llm = "closed" /\ graph.admin = "closed"

\* C17 (as the claim states it): after the event loop has handled a new
\* snapshot and the restart failed (the logger could not be re-initialised, or
\* a listener of the new graph could not bind its port), no listener is
\* serving and the event loop is still running.
C17_FailedRestartServesNothing ==
    (orch.last.op = "Reload"
        /\ (~orch.last.applied \/ graph.llm = "failed" \/ graph.admin = "failed")) =>
        /\ graph.llm # "serving" /\ graph.admin # "serving"
        /\ orch.pc = "loop"

\* C18: every reload that builds a new graph leaves a router made from the new
\* snapshot alone: every provider's failure count is 0 and its cooldown end is
\* unset, a provider is disabled iff the snapshot has it off or without
\* credentials, the round-robin cursor is 0 and the strategy is the snapshot's,
\* whatever the router of the old graph held.
C18_ReloadResetsRouter ==
    [][(orch'.last.op = "Reload" /\ orch'.last.applied) =>
        LET newConfig == Head(orch.reloadChan)
        IN  /\ Len(providers') = Len(newConfig.Providers)
            /\ \A i \in 1..Len(providers') :
                  /\ providers'[i].Provider = newConfig.Providers[i]
                  /\ providers'[i].FailureCount = 0
                  /\ providers'[i].DisabledUntil = ZeroTime
                  /\ providers'[i].IsDisabled <=>
                        \/ newConfig.Providers[i].State # "on"
                        \/ /\ newConfig.Providers[i].Env.ANTHROPIC_AUTH_TOKEN = ""
                           /\ newConfig.Providers[i].Env.ANTHROPIC_API_KEY = ""
            /\ robinIndex' = 0
            /\ routingStrategy' = newConfig.Routing.Strategy]_vars

\* a reload has just replaced a router that had failures recorded or a moved
\* cursor, and the new router is clean with both of its providers enabled
C18_Witness ==
    /\ orch.last = Last("Reload", TRUE, TRUE)
    /\ robinIndex = 0
    /\ \A i \in 1..Len(providers) : providers[i].FailureCount = 0 /\ ~providers[i].IsDisabled

\* C20: a failed load and a file-watch error go to the error channel and
\* nowhere else: the watcher's step, the send and the event loop's receive
\* leave the graph, the router, the reload channel and the event loop as they
\* were; and the graph changes only when the service starts, applies a
\* snapshot taken from the reload channel, or is told to stop.
C20_ErrorsOnlyOnErrorChannel ==
    [][/\ orch'.last.op \in {"WatchLoadError", "WatchError", "SendError", "Error"} =>
             /\ graph' = graph
             /\ UNCHANGED routerVars
             /\ orch'.reloadChan = orch.reloadChan
             /\ orch'.pc = orch.pc
       /\ orch'.last.op \in {"WatchLoadError", "WatchError"} => orch'.watcher = "sendErr"
       /\ orch'.last.op = "SendError" => orch.errorChan = 0 /\ orch'.errorChan = 1
       /\ orch'.last.op = "Error" => orch.errorChan = 1 /\ orch'.errorChan = 0
       /\ graph' # graph => orch'.last.op \in {"Start", "Reload", "Signal"}
       /\ orch'.last.op = "Reload" => Len(orch.reloadChan) = 1]_vars

\* the event loop has just logged an error while both listeners serve and the
\* router has a failure on record
C20_Witness ==
    /\ orch.last.op = "Error"
    /\ graph.llm = "serving" /\ graph.admin = "serving"
    /\ \E i \in 1..Len(providers) : providers[i].FailureCount > 0

\* C21 (as the claim states it): whenever the service is in its event loop,
\* whether its server was built by the initial start or by a reload, and the
\* removal of the last client has just left the client set empty, then the
\* service stops (Draining, then Stopped) unless a client registers again.
C21_ClientEmptyLeadsToStopped ==
    (/\ InLoop
     /\ lastClientOp.op \in {"UnregisterClient", "CleanupInactiveClients"}
     /\ lastClientOp.removed # {}
     /\ DOMAIN clients = {})
        ~> (~service.loop \/ DOMAIN clients # {})

\* C22: in every state of a relay no write of which has failed, what the
\* caller was sent is exactly what was read from upstream so far, in order,
\* whatever the chunk boundaries; with a Flusher everything sent has been
\* flushed; and when the loop has ended, the bytes that came with the
\* terminal error or EOF are among those sent.
C22_StreamingFidelity ==
    ~relay.writeFailed =>
        /\ relay.sent = SubSeq(relay.body, 1, relay.pos)
        /\ relay.flusher => relay.flushed = Len(relay.sent)

\* a relay whose three-byte body arrived in more than one chunk has ended and
\* the caller has all of it
C22_Witness ==
    /\ relay.pc = "done" /\ relay.flusher /\ ~relay.writeFailed
    /\ relay.body = <<"b", "a", "b">>
    /\ relay.sent = relay.body

\* C23 (as the claim states it): once a write to the caller has failed, the
\* relay reads nothing more from the upstream body and its loop has stopped.
C23_FailedWriteStopsRelay ==
    relay.writeFailed => relay.pc = "done"

\* C24 (as the claim states it): the body forwarded for /v1/messages to a
\* provider with a target model T denotes the inbound object with "model" set
\* to T and every other field and value as it was; rewriting the forwarded
\* body again gives the same bytes; and for a provider without a target model
\* the forwarded bytes are the inbound bytes.
C24_ModelRewrite ==
    proxyReq.fn = "handleMessages" =>
        LET T == proxyReq.provider.Env.ANTHROPIC_MODEL
            in == Denotes(proxyReq.inBody)
            out == Denotes(proxyReq.body)
        IN  IF T = "" THEN proxyReq.body = proxyReq.inBody
            ELSE /\ DOMAIN out = DOMAIN in \cup {"model"}
                 /\ out["model"] = [t |-> "string", v |-> T]
                 /\ \A k \in DOMAIN in \ {"model"} : out[k] = in[k]
                 /\ modifiedBody(proxyReq.body, T) = proxyReq.body

\* C25 (as the claim states it): the upstream request carries the selected
\* provider's credential (Authorization: Bearer <authToken> when it has an auth
\* token, else X-Api-Key: <apiKey>), goes to that provider's base URL, carries
\* no other provider's credential, and no credential header of it still holds
\* what the client sent.
C25_CredentialSubstitution ==
    proxyReq.fn # "none" =>
        LET env == proxyReq.provider.Env
            h == proxyReq.header
        IN  /\ env.ANTHROPIC_AUTH_TOKEN # "" => h.Authorization = <<"Bearer", env.ANTHROPIC_AUTH_TOKEN>>
            /\ env.ANTHROPIC_AUTH_TOKEN = "" => h.XApiKey = <<env.ANTHROPIC_API_KEY>>
            /\ proxyReq.url[1] = env.ANTHROPIC_BASE_URL
            /\ \A q \in ForwardProviders \ {proxyReq.provider} :
                  /\ h.Authorization # <<"Bearer", q.Env.ANTHROPIC_AUTH_TOKEN>>
                  /\ h.XApiKey # <<q.Env.ANTHROPIC_API_KEY>>
            /\ proxyReq.inHeader.Authorization # <<>> => h.Authorization # proxyReq.inHeader.Authorization
            /\ proxyReq.inHeader.XApiKey # <<>> => h.XApiKey # proxyReq.inHeader.XApiKey

\* C26 (as the claim states it): every answer the proxy itself gives with a
\* status outside 2xx has the body {type: "error", error: {type, message}}
\* with error.type one of invalid_request_error, overloaded_error and
\* api_error; 503 comes with overloaded_error and 502 with api_error.
C26_UniformErrorEnvelope ==
    (answer.resp.origin = "proxy" /\ (answer.resp.status < 200 \/ answer.resp.status > 299)) =>
        /\ answer.resp.shape = "envelope"
        /\ answer.resp.errType \in {"invalid_request_error", "overloaded_error", "api_error"}
        /\ answer.resp.status = 503 => answer.resp.errType = "overloaded_error"
        /\ answer.resp.status = 502 => answer.resp.errType = "api_error"

\* C27: a goroutine that is in its upstream call, between the call and the
\* recording of its outcome, or streaming the response does not hold the
\* ProviderManager mutex; and when some request is in its upstream call or
\* streaming and no goroutine is inside a ProviderManager call, the mutex is
\* free and every idle goroutine's GetNextProvider can take it.
C27_NoLockAcrossUpstream ==
    /\ \A t \in Threads :
          threads[t].pc \in {"idle", "upstream", "record", "streaming"} => pmMutex # t
    /\ ((\E t \in Threads : threads[t].pc \in {"upstream", "streaming"})
            /\ \A u \in Threads : threads[u].pc \notin InCall) =>
          /\ pmMutex = 0
          /\ \A u \in Threads : threads[u].pc = "idle" => ENABLED GetNextProviderLock(u)

\* one request is in its upstream call while another one is inside
\* GetNextProvider, holding the mutex
C27_Witness ==
    /\ threads[1].pc = "upstream"
    /\ threads[2].pc = "gnp.pick" /\ pmMutex = 2

\* C28: at most one goroutine is inside GetNextProvider, RecordFailure or
\* RecordSuccess, the one holding the mutex; every provider's failure count is
\* the number of RecordFailure calls completed since it was last zeroed (no
\* increment is lost); and two round-robin picks that follow one another over
\* two or more available providers read different cursor values.
C28_RouterAtomic ==
    /\ \A t, u \in Threads : (threads[t].pc \in InCall /\ threads[u].pc \in InCall) => t = u
    /\ \A t \in Threads : threads[t].pc \in InCall => pmMutex = t
    /\ \A i \in 1..Len(providers) : providers[i].FailureCount = lockHist.fails[i]
    /\ lockHist.reads[1] >= 0 => lockHist.reads[1] # lockHist.reads[2]

\* two RecordFailure calls for the same provider overlap: one is between the
\* read and the write of the count, the other one waits for the mutex, and a
\* failure is already on record
C28_Witness ==
    /\ threads[1].pc = "rf.write"
    /\ threads[2].pc = "record" /\ threads[2].up # "ok" /\ threads[2].sel = threads[1].sel
    /\ providers[threads[1].sel].FailureCount > 0

\* C29: GetProviderStatus and the passage of time change nothing of the
\* Router; a provider that is past its cooldown deadline and still marked
\* disabled is reported is_disabled = true with its stored failure count and
\* deadline; and a GetNextProvider call clears IsDisabled and DisabledUntil
\* and zeroes FailureCount of every provider that was past its deadline, and
\* no other call re-enables a provider.
C29_LazyReconciliation ==
    /\ [](\A i \in PastDeadline(providers, now) :
            /\ GetProviderStatus(providers)[i].is_disabled
            /\ GetProviderStatus(providers)[i].failure_count = providers[i].FailureCount
            /\ GetProviderStatus(providers)[i].disabled_until = <<providers[i].DisabledUntil>>)
    /\ [][/\ (Tick \/ GetProviderStatusCall) => UNCHANGED routerVars
          /\ GetNextProviderReconciles =>
                \A i \in PastDeadline(providers, now) :
                    /\ ~providers'[i].IsDisabled
                    /\ providers'[i].DisabledUntil = ZeroTime
                    /\ providers'[i].FailureCount = 0
          /\ (\E i \in 1..Len(providers) : providers[i].IsDisabled /\ ~providers'[i].IsDisabled) =>
                GetNextProviderReconciles]_vars

\* both providers were reported disabled past their deadline, and the
\* GetNextProvider call that followed found both past it and re-enabled both
C29_Witness ==
    /\ lastOp.op = "GetNextProvider"
    /\ expiry.reported = {1, 2} /\ expiry.expired = {1, 2}
    /\ \A i \in 1..Len(providers) : ~providers[i].IsDisabled /\ providers[i].FailureCount = 0

\* C30: once the last write to settings.json has been made and the file's
\* content is valid, the running graph is eventually one built from that
\* content.
C30_FinalContentApplied ==
    (conf.writes = 0 /\ ~conf.file.err) ~> BuiltFrom(conf.file.cfg)

\* C31: a ProxyServer that has been shut down performs no further session
\* sweep, and its ClientManager starts the empty-callback no more.
C31_TornDownIsQuiet ==
    torn.down => ~torn.swept /\ ~torn.fired

\* C32: under both strategies and after any interleaving of selections,
\* failures, successes and ticks, the provider a GetNextProvider call has
\* just returned is "on" and not disabled, the cursor is never negative, and
\* the round-robin pick over the providers available now takes a member of
\* that list.
C32_SelectionAvailable ==
    /\ robinIndex >= 0
    /\ (lastOp.op = "GetNextProvider" /\ lastOp.ret # 0) =>
          /\ lastOp.ret \in 1..Len(providers)
          /\ providers[lastOp.ret].Provider.State = "on"
          /\ ~providers[lastOp.ret].IsDisabled
    /\ LET availableProviders == getAvailableProviders(updateProviderStates(providers, now))
       IN  Len(availableProviders) > 0 =>
              /\ (robinIndex % Len(availableProviders)) + 1 \in 1..Len(availableProviders)
              /\ getNextRobin(availableProviders, robinIndex).selected \in
                    {availableProviders[k] : k \in 1..Len(availableProviders)}

\* under "robin" the cursor stands at 2 from the time both providers were
\* available, one of them is in cooldown since, and the selection returned
\* the other one
C32_Witness ==
    /\ routingStrategy = "robin" /\ lastOp.op = "GetNextProvider" /\ lastOp.ret # 0
    /\ robinIndex = 2
    /\ \E i \in 1..Len(providers) :
          /\ i # lastOp.ret
          /\ providers[i].IsDisabled /\ providers[i].FailureCount >= FailureThreshold

\* C33: in every reachable state and for every provider, failureCount >= 0,
\* failureCount >= 5 implies disabled, and not disabled implies disabledUntil
\* unset; the cursor is between 0 and the number of configured providers; and
\* a selection made while exactly one provider is available leaves the cursor
\* as it was.
C33_RouterInvariants ==
    /\ [](/\ \A i \in 1..Len(providers) :
               /\ providers[i].FailureCount >= 0
               /\ providers[i].FailureCount >= FailureThreshold => providers[i].IsDisabled
               /\ ~providers[i].IsDisabled => providers[i].DisabledUntil = ZeroTime
          /\ robinIndex >= 0 /\ robinIndex <= Len(providers))
    /\ [][(/\ lastOp'.op = "GetNextProvider"
           /\ Len(getAvailableProviders(updateProviderStates(providers, now))) = 1)
              => robinIndex' = robinIndex]_vars

\* a sixth failure has been recorded on a provider in cooldown while the
\* cursor stands at the number of configured providers
C33_Witness ==
    /\ lastOp.op = "RecordFailure"
    /\ robinIndex = Len(providers)
    /\ \E i \in 1..Len(providers) :
          /\ providers[i].FailureCount > FailureThreshold /\ providers[i].IsDisabled
          /\ \E j \in 1..Len(providers) : j # i /\ ~providers[j].IsDisabled

C35_OneOutcomePerRequest ==
    [][BagCardinality(reqs') < BagCardinality(reqs) =>
          LET p == lastResp'.prov
          IN  /\ lastResp'.status # 0
              /\ lastResp'.record \in {"failure", "success"}
              /\ lastResp'.record = "failure" =>
                    providers'[p].FailureCount = providers[p].FailureCount + 1
              /\ lastResp'.record = "success" => providers'[p].FailureCount = 0
              /\ \A j \in 1..Len(providers) : j # p => providers'[j] = providers[j]]_vars

\* C36: the onEmpty callback is started only by a call that takes the session
\* set from non-empty to empty, once for that call: UnregisterClient of an
\* unknown id, a sweep that removes nothing, RegisterClient and
\* UpdateHeartbeat start none, so a service in which no client ever
\* registered asks for no shutdown and is never auto-shut down; and the
\* session count goes up by one on the registration of an absent id, down by
\* one on the unregistration of a present id, down by the number of sessions
\* a sweep removed, and is changed by nothing else.
C36_CallbackOnEmptyTransition ==
    /\ [][LET op == lastClientOp'
              emptied == DOMAIN clients # {} /\ DOMAIN clients' = {}
          IN  /\ op.started \in {0, 1}
              /\ op.started = 1 <=> (emptied /\ onEmpty)
              /\ BagCardinality(callbacks') <= BagCardinality(callbacks) + op.started
              /\ op.op \in {"RegisterClient", "UpdateHeartbeat"} => op.started = 0
              /\ (op.op = "UnregisterClient" /\ ~op.existed) => (op.started = 0 /\ clients' = clients)
              /\ (op.op = "CleanupInactiveClients" /\ op.removed = {}) =>
                    (op.started = 0 /\ clients' = clients)
              /\ GetClientCount(clients') =
                    GetClientCount(clients)
                      + (IF op.op = "RegisterClient" /\ ~op.existed THEN 1 ELSE 0)
                      - (IF op.op = "UnregisterClient" /\ op.existed THEN 1 ELSE 0)
                      - (IF op.op = "CleanupInactiveClients" THEN Cardinality(op.removed) ELSE 0)
              /\ DOMAIN clients' =
                    CASE op.op = "RegisterClient" -> DOMAIN clients \cup {op.id}
                      [] op.op = "UnregisterClient" -> DOMAIN clients \ {op.id}
                      [] op.op = "CleanupInactiveClients" -> DOMAIN clients \ op.removed
                      [] OTHER -> DOMAIN clients]_vars
    /\ [](lastClientOp.op # "RegisterClient") =>
          [](callbacks = EmptyBag /\ shutdownChan = 0 /\ lastClientOp.op # "AutoShutdown")

\* with the callback set and no session ever present, an unregister of an
\* unknown id came back after the inactivity window with nothing started
C36_Witness ==
    /\ lastClientOp.op = "UnregisterClient" /\ ~lastClientOp.existed /\ lastClientOp.started = 0
    /\ onEmpty /\ service.loop
    /\ DOMAIN clients = {} /\ callbacks = EmptyBag /\ shutdownChan = 0
    /\ now > InactivityTimeout

\* C37: a request accepted before a reload that finishes after it records its
\* outcome on the ProviderManager of the server that accepted it and leaves
\* the new ProviderManager as it was; the new one's failure counts, disabled
\* flags, deadlines and cursor change only in a step of a handler of the new
\* server (or when a reload replaces it).
C37_ReloadIsolation ==
    [][/\ (iso'.last.op \in {"failure", "success"} /\ iso'.last.server = "old") =>
             /\ UNCHANGED routerVars
             /\ iso'.old[1].robinIndex = iso.old[1].robinIndex
             /\ iso'.old[1].providers =
                   (IF iso'.last.op = "failure"
                    THEN RecordFailure(iso.old[1].providers, iso'.last.prov, now)
                    ELSE RecordSuccess(iso.old[1].providers, iso'.last.prov))
       /\ routerVars' # routerVars => (iso'.last.server = "new" \/ iso'.last.op = "reload")
       /\ (iso.old # <<>> /\ iso'.old # iso.old) => (iso'.last.server = "old" \/ iso'.last.op = "reload")]_vars

\* an old request failed after the reload: the old manager counts one
\* failure, the new one none
C37_Witness ==
    /\ iso.last = IsoOp("failure", "old", "P1")
    /\ iso.old[1].providers[1].FailureCount = 1
    /\ \A i \in 1..Len(providers) : providers[i].FailureCount = 0 /\ ~providers[i].IsDisabled

\* C38: a write event taken less than a second after the last event that
\* was accepted is dropped with nothing loaded and nothing sent, whether the
\* accepted event's load succeeded or failed (the time of acceptance is kept
\* either way); a loaded snapshot goes into reloadChan only when the channel
\* is empty, otherwise the channel keeps the older snapshot and the newer
\* one is dropped; and a reload applies the snapshot at the head of the channel.
C38_WatcherDelivery ==
    [][/\ WatchEvent =>
             LET op == orch'.last.op
             IN  /\ op \in {"WatchSkip", "WatchLoad", "WatchLoadError"}
                 /\ op = "WatchSkip" =>
                       /\ orch.lastReload
                       /\ orch' = [orch EXCEPT !.last = orch'.last]
                 /\ op # "WatchSkip" => orch'.lastReload
                 /\ op = "WatchLoad" =>
                       /\ ~conf.file.err
                       /\ orch'.reloadChan =
                             (IF orch.reloadChan = <<>> THEN <<conf.file.cfg>> ELSE orch.reloadChan)
                       /\ orch'.watcher = "select" /\ orch'.errorChan = orch.errorChan
                 /\ op = "WatchLoadError" => conf.file.err /\ orch'.reloadChan = orch.reloadChan
                 /\ UNCHANGED <<routerVars, graph>>
       /\ Len(orch'.reloadChan) <= 1
       /\ OrchReload =>
             /\ orch'.reloadChan = <<>>
             /\ orch'.last.applied =>
                   LET pm == NewProviderManager(Head(orch.reloadChan))
                   IN  /\ providers' = pm.providers
                       /\ routingStrategy' = pm.routingStrategy
                       /\ robinIndex' = pm.robinIndex
                       /\ graph'.adminPort = Head(orch.reloadChan).AdminPort]_vars

\* a second snapshot was loaded while the first was still in the channel: the
\* channel holds the first, which is not what the file says now
C38_Witness ==
    /\ orch.last.op = "WatchLoad"
    /\ Len(orch.reloadChan) = 1
    /\ ~conf.file.err /\ orch.reloadChan[1] # conf.file.cfg
    /\ conf.writes = 0 /\ conf.events = 0

\* C39: a registered client whose heartbeats reach the tracker less than the
\* inactivity window apart leaves the session set only by its own
\* unregistration, never by a sweep; a sweep removes a session exactly when
\* now - LastPing is strictly greater than the window, and leaves every
\* other session as it was.
C39_LiveClientNotSwept ==
    [][/\ (LiveClient \in DOMAIN clients /\ LiveClient \notin DOMAIN clients') =>
             (lastClientOp'.op = "UnregisterClient" /\ lastClientOp'.id = LiveClient)
       /\ CleanupTick =>
             \A id \in DOMAIN clients :
                 /\ id \notin DOMAIN clients' <=> now - clients[id].LastPing > InactivityTimeout
                 /\ id \in DOMAIN clients' => clients'[id] = clients[id]]_vars

\* a sweep has just removed Y; X, registered for longer than the window and
\* silent for less than it, is still there
C39_Witness ==
    /\ lastClientOp.op = "CleanupInactiveClients" /\ lastClientOp.removed = {"Y"}
    /\ DOMAIN clients = {LiveClient}
    /\ now - clients[LiveClient].RegisterAt > InactivityTimeout
    /\ now - clients[LiveClient].LastPing < InactivityTimeout

====
